---- MODULE Spec2Model ----
(***************************************************************************)
(* Persistence layer of the QR-code application: the remote document store *)
(* (QRCodeFirestore, DocumentStorage, ScanEventStorage), the localStorage  *)
(* cache and the facade over both (QRCodeStorage, ScanTracker).            *)
(*                                                                         *)
(* Every remote call (setDoc, getDoc, getDocs, updateDoc, deleteDoc) is an *)
(* await that either succeeds or rejects; the outcome of each call is an   *)
(* input of the action that makes it.  Handlers whose interleaving matters *)
(* (getUserQRCodes, migrateFromLocalStorage) are split at their awaits and *)
(* run as tasks; the other handlers are one action each.                   *)
(***************************************************************************)
EXTENDS Integers, Sequences, FiniteSets, TLC

\* ------------------------------------------------------------------ bounds
MaxIds == 3          \* ids generateId() hands out in one run
MaxTime == 2         \* largest value of the clock
MaxCount == 2        \* cap of the counters touched by increment calls
MaxScans == 1002     \* trackScan calls in the scan-counting scenario
MaxLog == 3          \* scan events the remote log takes in the scan scenario
MaxCodes == 1        \* saveQRCode calls in the counter and public-API runs
MaxSaved == 2        \* ids generated before the last saveQRCode call of Spec
MaxList == 6          \* entities in a list the statistics are computed from
MaxItems == 2         \* elements of an imported array
MaxCalls == 2         \* snapshots the listener of a subscription delivers

\* ------------------------------------------------------- program constants
MAX_LOCAL_EVENTS == 1000
RECENT_CODES == 5
EVENT_LIMIT == 1000
MOST_SCANNED == 5

AllUsers == {"u1", "u2"}
Users == {"u1"}
Names == {"a", "b"}
Ids == 1..MaxIds
Types == {"url", "email"}
TagValues == {"undefined", "[]", "[t]"}
DescriptionValues == {"undefined", "", "d"}
DataValues == {"d", "email|d"}
DocIds == {1, 2}

\* ------------------------------------------------------------------- data
\* SavedQRCode without its config and colours; 0 is the absent optional timestamp; the optional tags and
\* description are "undefined" when the key is absent, "null" when it holds
\* null, else the value: "[]" or "[t]" for tags, "" or "d" for description.
NoDoc ==
  [id |-> 0, userId |-> "", name |-> "", type |-> "", data |-> "",
   isActive |-> FALSE,
   downloadCount |-> 0, scanCount |-> 0, createdAt |-> 0, updatedAt |-> 0,
   lastAccessed |-> 0, lastScanned |-> 0,
   tags |-> "undefined", description |-> "undefined"]

\* a document of collection documents: DocumentMetadata and its owner
NoDocument == [id |-> 0, userId |-> "", uploadedAt |-> 0]

\* localStorage.getItem(key) === null
\* the two kinds of entity a caller subscribes to
Kinds == {"qr", "doc"}

\* no subscription: state is "none" before subscribe, "active" while the
\* listener runs, "ended" once the listener reported an error, "broken"
\* when setting it up threw, "closed" after unsubscribe; fetches counts the
\* fallback fetches in flight, calls the invocations of the callback and
\* delivered is the list of the last one; notes, errors and threw are
\* history
NoSub ==
  [state |-> "none", user |-> "", fetches |-> 0, calls |-> 0,
   delivered |-> <<>>, notes |-> 0, errors |-> 0, threw |-> FALSE]

\* no getScanAnalytics call yet
NoAnalytics ==
  [calls |-> 0, source |-> "", user |-> "", events |-> <<>>, codes |-> <<>>,
   value |-> <<>>]

\* no statistics computed yet
NoRun == [branch |-> "", codes |-> <<>>, received |-> <<>>, value |-> <<>>]

\* no importQRCodes call yet
NoImport ==
  [calls |-> 0, json |-> [kind |-> "invalid", items |-> <<>>],
   value |-> [success |-> 0, errors |-> <<>>], existing |-> <<>>,
   saved |-> <<>>, outcomes |-> <<>>, entities |-> {}]

\* no facade call observed; on tells whether the calls are observed at all
NoCall ==
  [on |-> FALSE, op |-> "", user |-> "", id |-> 0, updates |-> <<>>,
   value |-> FALSE, remote |-> <<>>, local |-> <<>>]

\* the calls of the run are observed, none was made yet
Observing == [NoCall EXCEPT !.on = TRUE]

\* localStorage.getItem(`documents_${userId}`) === null
NoDocuments == [present |-> FALSE, documents |-> <<>>]

\* no migration pass of DocumentStorage yet
NoPass ==
  [calls |-> 0, user |-> "", documents |-> <<>>, existing |-> {},
   written |-> {}]

\* no tracking URL generated yet
NoLink ==
  [step |-> "none", qrCodeId |-> "", userId |-> "", baseUrl |-> <<>>,
   url |-> <<>>, parsed |-> [qrCodeId |-> "", userId |-> ""]]

NoKey == [present |-> FALSE, codes |-> <<>>]

Key(codes) == [present |-> TRUE, codes |-> codes]

VARIABLES
  remote,      \* collection qr_codes: id -> document, NoData when absent
  local,       \* localStorage qr_codes_<userId>
  nextId,      \* number of ids generated so far
  now,         \* Date.now()
  tasks,       \* getUserQRCodes / migrateFromLocalStorage calls in flight
  scanRemote,  \* collection scan_events
  scanLocal,   \* localStorage qr_scan_events_<userId>
  docRemote,   \* collection documents
  thrown,      \* the call whose promise rejected most recently, "" if none
  origin,      \* history: the id of the saved entity a document is a copy of
  live,        \* history: ids saved and not deleted since
  pending,     \* history: ids whose latest update went to the cache only
  tracked,     \* history: per id, the trackScan calls that returned true
  returned,    \* history: per id, the increment calls that returned true
  subs,        \* per kind of entity, the subscription and its subscriber
  result,      \* history: the last importQRCodes call and what it resolved to
  statsRun,    \* history: the last statistics computed, and from which list
  analytics,   \* history: the last getScanAnalytics call and what it resolved to
  call,        \* history: the last observed facade call, with the stores it found
  docLocal,    \* localStorage documents_<userId>
  docPass,     \* history: the last DocumentStorage migration pass and its inputs
  midPass,     \* history: ids saved while a migration pass of their user was suspended
  link,        \* history: the last tracking URL generated, and what parsing it gave
  dataset      \* history: the cached codes of the last directly called pass

vars == <<remote, local, nextId, now, tasks, scanRemote, scanLocal,
          docRemote, thrown, origin, live, pending, tracked, returned, subs,
          result, statsRun, analytics, call, docLocal, docPass, midPass, link, dataset>>

\* ------------------------------------------------------ pure helper steps
\* codes.some(code => code.id === id)
HasId(codes, id) == \E k \in 1..Len(codes) : codes[k].id = id

\* codes.find(code => code.id === id) || null
FindCode(codes, id) ==
  IF HasId(codes, id)
    THEN codes[CHOOSE k \in 1..Len(codes) :
                 codes[k].id = id /\ \A j \in 1..(k - 1) : codes[j].id # id]
    ELSE NoDoc

\* codes.filter(code => code.id !== id)
RECURSIVE FilterOut(_, _)
FilterOut(codes, id) ==
  IF codes = <<>> THEN <<>>
  ELSE IF Head(codes).id = id THEN FilterOut(Tail(codes), id)
  ELSE <<Head(codes)>> \o FilterOut(Tail(codes), id)

\* a spread in which the fields of the entity win
MergeKept(entity, updates) == entity @@ updates

\* { ...entity, ...updates }: the fields of updates win
Merge(entity, updates) == updates @@ entity

\* Timestamp.fromDate(new Date(iso)): the milliseconds as seconds and
\* nanoseconds
FromDate(ms) ==
  [seconds |-> ms \div 1000, nanoseconds |-> (ms % 1000) * 1000000]

\* the null a document holds for an optional stamp
NullStamp == [seconds |-> 0, nanoseconds |-> 0]

\* convertTimestamp: timestamp.toDate().toISOString()
ConvertTimestamp(ts) == ts.seconds * 1000 + ts.nanoseconds \div 1000000

\* value || null for the optional tags and description: an array is truthy
\* even when empty, the empty string is not
OrNull(v) == IF v \in {"undefined", "null", ""} THEN "null" ELSE v

\* toFirestoreFormat: stamps as Timestamps, null for the absent optional
\* stamps, tags and description
ToFirestoreFormat(e) ==
  [e EXCEPT !.createdAt = FromDate(e.createdAt),
            !.updatedAt = FromDate(e.updatedAt),
            !.lastAccessed = IF e.lastAccessed # 0 THEN FromDate(e.lastAccessed)
                             ELSE NullStamp,
            !.lastScanned = IF e.lastScanned # 0 THEN FromDate(e.lastScanned)
                            ELSE NullStamp,
            !.tags = OrNull(e.tags),
            !.description = OrNull(e.description)]

\* fromFirestoreFormat: the document's id and fields, stamps back as ISO
\* strings, undefined for the null optional stamps
FromFirestoreFormat(id, data) ==
  [data EXCEPT !.id = id,
               !.createdAt = ConvertTimestamp(data.createdAt),
               !.updatedAt = ConvertTimestamp(data.updatedAt),
               !.lastAccessed = IF data.lastAccessed # NullStamp
                                  THEN ConvertTimestamp(data.lastAccessed) ELSE 0,
               !.lastScanned = IF data.lastScanned # NullStamp
                                 THEN ConvertTimestamp(data.lastScanned) ELSE 0]

\* the slot of collection qr_codes that holds no document
NoData == ToFirestoreFormat(NoDoc)

\* getUserQRCodesLocal: stored ? JSON.parse(stored) : []
GetUserQRCodesLocal(loc, u) == IF loc[u].present THEN loc[u].codes ELSE <<>>

\* the entity saveQRCode builds from a draft
NewCode(draft, id, t) ==
  [id |-> id, userId |-> draft.userId, name |-> draft.name,
   type |-> draft.type, data |-> draft.data, isActive |-> draft.isActive,
   downloadCount |-> 0, scanCount |-> 0,
   createdAt |-> t, updatedAt |-> t, lastAccessed |-> 0, lastScanned |-> 0,
   tags |-> draft.tags, description |-> draft.description]

\* the draft migrateFromLocalStorage rebuilds from a cached code
DraftOf(code) ==
  [name |-> code.name, type |-> code.type, data |-> code.data,
   userId |-> code.userId, isActive |-> code.isActive, tags |-> code.tags,
   description |-> code.description]

\* ------------------------------------------------------- QRCodeFirestore
\* Each operator is one call: threw tells whether the promise rejected,
\* value what it resolved to, remote the collection after the call.

\* a query without the where clause: every document, by id
RECURSIVE QueryAll(_, _, _)
QueryAll(rem, u, i) ==
  IF i > MaxIds THEN <<>>
  ELSE IF rem[i] # NoData
    THEN <<FromFirestoreFormat(i, rem[i])>> \o QueryAll(rem, u, i + 1)
  ELSE QueryAll(rem, u, i + 1)

\* query(collection, where userId == u): the matching documents, by id
RECURSIVE QueryFrom(_, _, _)
QueryFrom(rem, u, i) ==
  IF i > MaxIds THEN <<>>
  ELSE IF rem[i] # NoData /\ rem[i].userId = u
    THEN <<FromFirestoreFormat(i, rem[i])>> \o QueryFrom(rem, u, i + 1)
  ELSE QueryFrom(rem, u, i + 1)

\* one insertion of codes.sort((a, b) => dateB - dateA), which is stable
RECURSIVE InsertByUpdated(_, _)
InsertByUpdated(sorted, e) ==
  IF sorted = <<>> THEN <<e>>
  ELSE IF Head(sorted).updatedAt >= e.updatedAt
    THEN <<Head(sorted)>> \o InsertByUpdated(Tail(sorted), e)
  ELSE <<e>> \o sorted

RECURSIVE SortByUpdated(_)
SortByUpdated(codes) ==
  IF codes = <<>> THEN <<>>
  ELSE InsertByUpdated(SortByUpdated(SubSeq(codes, 1, Len(codes) - 1)),
                       codes[Len(codes)])

FsGetUserQRCodes(rem, u, ok) ==
  IF ok THEN [threw |-> FALSE, value |-> SortByUpdated(QueryFrom(rem, u, 1))]
  ELSE [threw |-> TRUE, value |-> <<>>]

FsSaveQRCode(rem, draft, id, t, ok) ==
  LET saved == NewCode(draft, id, t) IN
  IF ok THEN [threw |-> FALSE, value |-> saved,
              remote |-> [rem EXCEPT ![id] = ToFirestoreFormat(saved)]]
  ELSE [threw |-> TRUE, value |-> NoDoc, remote |-> rem]

FsGetQRCode(rem, id, ok) ==
  IF ~ok THEN [threw |-> TRUE, value |-> NoDoc]
  ELSE IF rem[id] # NoData
    THEN [threw |-> FALSE, value |-> FromFirestoreFormat(id, rem[id])]
  ELSE [threw |-> FALSE, value |-> NoDoc]

\* an updateData that leaves updatedAt as it was stored
UpdateDataUnstamped(updates, t) ==
  [f \in DOMAIN updates |->
     IF f \in {"lastAccessed", "lastScanned"} /\ updates[f] # 0
       THEN FromDate(updates[f])
     ELSE updates[f]]

\* updateData: the updates with updatedAt restamped and the two optional
\* stamps, when given, as Timestamps
UpdateData(updates, t) ==
  [f \in DOMAIN updates \cup {"updatedAt"} |->
     IF f = "updatedAt" THEN FromDate(t)
     ELSE IF f \in {"lastAccessed", "lastScanned"} /\ updates[f] # 0
       THEN FromDate(updates[f])
     ELSE updates[f]]

\* updateDoc rejects when the document does not exist
FsUpdateQRCode(rem, id, updates, t, ok) ==
  IF ok /\ rem[id] # NoData
    THEN [threw |-> FALSE,
          remote |-> [rem EXCEPT ![id] = Merge(rem[id], UpdateData(updates, t))]]
  ELSE [threw |-> TRUE, remote |-> rem]

\* deleteDoc of an absent document resolves
FsDeleteQRCode(rem, id, ok) ==
  IF ok THEN [threw |-> FALSE, remote |-> [rem EXCEPT ![id] = NoData]]
  ELSE [threw |-> TRUE, remote |-> rem]

\* toggleQRCodeStatus: read the code, write isActive negated; every error
\* is caught here and turned into false
FsToggleQRCodeStatus(rem, id, t, okGet, okUpd) ==
  LET got == FsGetQRCode(rem, id, okGet) IN
  IF got.threw \/ got.value = NoDoc
    THEN [threw |-> FALSE, value |-> FALSE, remote |-> rem]
  ELSE LET upd == FsUpdateQRCode(rem, id,
                    [isActive |-> ~got.value.isActive, lastAccessed |-> t],
                    t, okUpd) IN
       [threw |-> FALSE, value |-> ~upd.threw, remote |-> upd.remote]

FsIncrementDownloadCount(rem, id, t, okGet, okUpd) ==
  LET got == FsGetQRCode(rem, id, okGet) IN
  IF got.threw \/ got.value = NoDoc
    THEN [threw |-> FALSE, value |-> FALSE, remote |-> rem]
  ELSE LET upd == FsUpdateQRCode(rem, id,
                    [downloadCount |-> got.value.downloadCount + 1,
                     lastAccessed |-> t],
                    t, okUpd) IN
       [threw |-> FALSE, value |-> ~upd.threw, remote |-> upd.remote]

FsIncrementScanCount(rem, id, t, okGet, okUpd) ==
  LET got == FsGetQRCode(rem, id, okGet) IN
  IF got.threw \/ got.value = NoDoc
    THEN [threw |-> FALSE, value |-> FALSE, remote |-> rem]
  ELSE LET upd == FsUpdateQRCode(rem, id,
                    [scanCount |-> got.value.scanCount + 1,
                     lastScanned |-> t, lastAccessed |-> t],
                    t, okUpd) IN
       [threw |-> FALSE, value |-> ~upd.threw, remote |-> upd.remote]

\* the statistics of no codes
ZeroStats ==
  [totalCodes |-> 0, activeCodes |-> 0, inactiveCodes |-> 0,
   totalDownloads |-> 0, totalScans |-> 0, mostUsedType |-> "url",
   mostScannedCode |-> NoDoc, recentCodes |-> <<>>]

\* a sum of the downloads that leaves the inactive codes out
RECURSIVE SumActiveDownloads(_)
SumActiveDownloads(codes) ==
  IF codes = <<>> THEN 0
  ELSE (IF Head(codes).isActive THEN Head(codes).downloadCount ELSE 0)
       + SumActiveDownloads(Tail(codes))

\* codes.reduce((sum, code) => sum + code.downloadCount, 0)
RECURSIVE SumDownloads(_)
SumDownloads(codes) ==
  IF codes = <<>> THEN 0
  ELSE Head(codes).downloadCount + SumDownloads(Tail(codes))

\* codes.reduce((sum, code) => sum + code.scanCount, 0)
RECURSIVE SumScans(_)
SumScans(codes) ==
  IF codes = <<>> THEN 0 ELSE Head(codes).scanCount + SumScans(Tail(codes))

\* the keys of typeCounts, in the order the reduce inserted them
RECURSIVE TypeKeys(_, _)
TypeKeys(codes, seen) ==
  IF codes = <<>> THEN seen
  ELSE TypeKeys(Tail(codes),
                IF \E k \in 1..Len(seen) : seen[k] = Head(codes).type
                  THEN seen ELSE Append(seen, Head(codes).type))

\* typeCounts[type]
TypeCount(codes, type) ==
  Cardinality({k \in 1..Len(codes) : codes[k].type = type})

\* entries.reduce((a, b) => typeCounts[a] > typeCounts[b] ? a : b)
RECURSIVE MostUsedFrom(_, _, _)
MostUsedFrom(codes, keys, a) ==
  IF keys = <<>> THEN a
  ELSE MostUsedFrom(codes, Tail(keys),
         IF TypeCount(codes, a) > TypeCount(codes, Head(keys)) THEN a
         ELSE Head(keys))

MostUsedType(codes) ==
  LET keys == TypeKeys(codes, <<>>) IN
  IF keys = <<>> THEN "url" ELSE MostUsedFrom(codes, Tail(keys), Head(keys))

\* a reduce that lets a later entity with the same scanCount win
RECURSIVE MostScannedLast(_, _)
MostScannedLast(codes, max) ==
  IF codes = <<>> THEN max
  ELSE MostScannedLast(Tail(codes),
         IF Head(codes).scanCount > 0 /\ Head(codes).scanCount >= max.scanCount
           THEN Head(codes) ELSE max)

\* codes.reduce((max, code) =>
\*   code.scanCount > (max?.scanCount || 0) ? code : max, null)
RECURSIVE MostScannedFrom(_, _)
MostScannedFrom(codes, max) ==
  IF codes = <<>> THEN max
  ELSE MostScannedFrom(Tail(codes),
         IF Head(codes).scanCount > max.scanCount THEN Head(codes) ELSE max)

\* the first five codes of the list as it was received
RecentCodesUnsorted(codes) ==
  SubSeq(codes, 1, IF Len(codes) < RECENT_CODES THEN Len(codes)
                   ELSE RECENT_CODES)

\* codes.sort(by updatedAt, newest first).slice(0, 5)
RecentCodes(codes) ==
  LET sorted == SortByUpdated(codes) IN
  SubSeq(sorted, 1, IF Len(sorted) < RECENT_CODES THEN Len(sorted)
                    ELSE RECENT_CODES)

\* the statistics both getQRCodeStats bodies compute from a list of codes
ComputeStats(codes) ==
  IF codes = <<>> THEN ZeroStats
  ELSE [totalCodes |-> Len(codes),
        activeCodes |-> Cardinality({k \in 1..Len(codes) : codes[k].isActive}),
        inactiveCodes |-> Cardinality({k \in 1..Len(codes) : ~codes[k].isActive}),
        totalDownloads |-> SumDownloads(codes),
        totalScans |-> SumScans(codes),
        mostUsedType |-> MostUsedType(codes),
        mostScannedCode |-> MostScannedFrom(codes, NoDoc),
        recentCodes |-> RecentCodes(codes)]

\* getQRCodeStats: every error is caught here and answered with the
\* statistics of no codes
FsGetQRCodeStats(rem, u, ok) ==
  LET r == FsGetUserQRCodes(rem, u, ok) IN
  [threw |-> FALSE,
   value |-> IF r.threw THEN ZeroStats ELSE ComputeStats(r.value)]

\* --------------------------------------------------------- QRCodeStorage
\* The facade calls as operators: value is what the promise resolves to,
\* remote and local the two stores after the call, viaCache whether the
\* catch branch wrote the cache.

\* localStorage.setItem(key, JSON.stringify(codes))
SetItem(loc, u, codes) == [loc EXCEPT ![u] = Key(codes)]

\* a saveQRCode whose catch branch returns its entity without caching it
StSaveQRCodeUncached(rem, loc, draft, id1, id2, t, okSet, okGet) ==
  LET u == draft.userId
      w == FsSaveQRCode(rem, draft, id1, t, okSet)
      v == FsGetQRCode(w.remote, id1, okGet)
      existingCodes == GetUserQRCodesLocal(loc, u)
  IN IF ~w.threw /\ ~v.threw /\ v.value # NoDoc
       THEN [value |-> w.value, remote |-> w.remote, viaCache |-> FALSE,
             local |-> IF HasId(existingCodes, w.value.id) THEN loc
                       ELSE SetItem(loc, u, Append(existingCodes, w.value))]
       ELSE [value |-> NewCode(draft, id2, t), remote |-> w.remote,
             viaCache |-> TRUE, local |-> loc]

\* saveQRCode: remote write, read-back, mirror into the cache; on any
\* rejection a second entity with its own id goes to the cache only.
\* id1 is the id QRCodeFirestore.generateId returns, id2 the facade's.
StSaveQRCode(rem, loc, draft, id1, id2, t, okSet, okGet) ==
  LET u == draft.userId
      w == FsSaveQRCode(rem, draft, id1, t, okSet)
      v == FsGetQRCode(w.remote, id1, okGet)
      existingCodes == GetUserQRCodesLocal(loc, u)
  IN IF ~w.threw /\ ~v.threw /\ v.value # NoDoc
       THEN [value |-> w.value, remote |-> w.remote, viaCache |-> FALSE,
             local |-> IF HasId(existingCodes, w.value.id) THEN loc
                       ELSE SetItem(loc, u, Append(existingCodes, w.value))]
       ELSE LET saved == NewCode(draft, id2, t) IN
            [value |-> saved, remote |-> w.remote, viaCache |-> TRUE,
             local |-> SetItem(loc, u, Append(existingCodes, saved))]

\* a getQRCode that answers from the cache whenever the cache holds the id
StGetQRCodeCacheFirst(rem, loc, u, id, ok) ==
  LET r == FsGetQRCode(rem, id, ok)
      codes == GetUserQRCodesLocal(loc, u)
  IN IF HasId(codes, id) \/ r.threw THEN FindCode(codes, id) ELSE r.value

\* getQRCode: the remote document, the cached copy only when the read fails
StGetQRCode(rem, loc, u, id, ok) ==
  LET r == FsGetQRCode(rem, id, ok) IN
  IF ~r.threw THEN r.value ELSE FindCode(GetUserQRCodesLocal(loc, u), id)

StUpdateQRCode(rem, loc, u, id, updates, t, ok) ==
  LET r == FsUpdateQRCode(rem, id, updates, t, ok)
      codes == GetUserQRCodesLocal(loc, u)
  IN IF ~r.threw
       THEN [value |-> TRUE, remote |-> r.remote, local |-> loc, viaCache |-> FALSE]
     ELSE IF ~HasId(codes, id)
       THEN [value |-> FALSE, remote |-> rem, local |-> loc, viaCache |-> FALSE]
     ELSE LET index == CHOOSE k \in 1..Len(codes) :
                         codes[k].id = id /\ \A j \in 1..(k - 1) : codes[j].id # id
          IN [value |-> TRUE, remote |-> rem, viaCache |-> TRUE,
              local |-> SetItem(loc, u,
                          [codes EXCEPT ![index] =
                             Merge(codes[index], [updatedAt |-> t] @@ updates)])]

StDeleteQRCode(rem, loc, u, id, ok) ==
  LET r == FsDeleteQRCode(rem, id, ok)
      codes == GetUserQRCodesLocal(loc, u)
      filteredCodes == FilterOut(codes, id)
  IN IF ~r.threw
       THEN [value |-> TRUE, remote |-> r.remote, local |-> loc, viaCache |-> FALSE]
     ELSE IF Len(filteredCodes) = Len(codes)
       THEN [value |-> FALSE, remote |-> rem, local |-> loc, viaCache |-> FALSE]
     ELSE [value |-> TRUE, remote |-> rem, viaCache |-> TRUE,
           local |-> SetItem(loc, u, filteredCodes)]

\* getQRCodeStats: the catch branch, which reads the cache, runs only when
\* the QRCodeFirestore call rejects
StGetQRCodeStats(rem, loc, u, ok) ==
  LET r == FsGetQRCodeStats(rem, u, ok) IN
  IF ~r.threw THEN r.value ELSE ComputeStats(GetUserQRCodesLocal(loc, u))

\* toggleQRCodeStatus: the catch branch runs only when the QRCodeFirestore
\* call rejects; okGet2 and okUpd2 are the outcomes of its own remote calls
StToggleQRCodeStatus(rem, loc, u, id, t, okGet, okUpd, okGet2, okUpd2) ==
  LET r == FsToggleQRCodeStatus(rem, id, t, okGet, okUpd) IN
  IF ~r.threw
    THEN [value |-> r.value, remote |-> r.remote, local |-> loc, viaCache |-> FALSE]
  ELSE LET code == StGetQRCode(rem, loc, u, id, okGet2) IN
       IF code = NoDoc
         THEN [value |-> FALSE, remote |-> rem, local |-> loc, viaCache |-> FALSE]
       ELSE StUpdateQRCode(rem, loc, u, id,
              [isActive |-> ~code.isActive, lastAccessed |-> t], t, okUpd2)

StIncrementDownloadCount(rem, loc, u, id, t, okGet, okUpd, okGet2, okUpd2) ==
  LET r == FsIncrementDownloadCount(rem, id, t, okGet, okUpd) IN
  IF ~r.threw
    THEN [value |-> r.value, remote |-> r.remote, local |-> loc, viaCache |-> FALSE]
  ELSE LET code == StGetQRCode(rem, loc, u, id, okGet2) IN
       IF code = NoDoc
         THEN [value |-> FALSE, remote |-> rem, local |-> loc, viaCache |-> FALSE]
       ELSE StUpdateQRCode(rem, loc, u, id,
              [downloadCount |-> code.downloadCount + 1, lastAccessed |-> t],
              t, okUpd2)

StIncrementScanCount(rem, loc, u, id, t, okGet, okUpd, okGet2, okUpd2) ==
  LET r == FsIncrementScanCount(rem, id, t, okGet, okUpd) IN
  IF ~r.threw
    THEN [value |-> r.value, remote |-> r.remote, local |-> loc, viaCache |-> FALSE]
  ELSE LET code == StGetQRCode(rem, loc, u, id, okGet2) IN
       IF code = NoDoc
         THEN [value |-> FALSE, remote |-> rem, local |-> loc, viaCache |-> FALSE]
       ELSE StUpdateQRCode(rem, loc, u, id,
              [scanCount |-> code.scanCount + 1, lastScanned |-> t,
               lastAccessed |-> t],
              t, okUpd2)

\* -------------------------------------- getUserQRCodes as one settled call
\* The calls below run to their end with no other call in between: okRead
\* and okWrite are the outcomes of the remote read and of every remote
\* write of the migration, nid the ids generated so far.

\* the element of a one-element set: a value computed once
Only(S) == CHOOSE x \in S : TRUE

\* the for loop of migrateFromLocalStorage
RECURSIVE MigrateAll(_, _, _, _, _, _)
MigrateAll(codes, existing, rem, nid, t, okWrite) ==
  IF codes = <<>> THEN [remote |-> rem, nextId |-> nid]
  ELSE IF Head(codes).id \in existing \/ ~okWrite
    THEN MigrateAll(Tail(codes), existing, rem, nid, t, okWrite)
  ELSE MigrateAll(Tail(codes), existing,
                  FsSaveQRCode(rem, DraftOf(Head(codes)), nid + 1, t, TRUE).remote,
                  nid + 1, t, okWrite)

StMigrateFromLocalStorage(rem, loc, u, nid, t, okRead, okWrite) ==
  LET r == FsGetUserQRCodes(rem, u, okRead)
      existingIds == {r.value[k].id : k \in 1..Len(r.value)}
      w == MigrateAll(loc[u].codes, existingIds, rem, nid, t, okWrite)
  IN IF ~loc[u].present \/ r.threw
       THEN [remote |-> rem, local |-> loc, nextId |-> nid]
     ELSE [remote |-> w.remote, local |-> [loc EXCEPT ![u] = NoKey],
           nextId |-> w.nextId]

\* getUserQRCodes: value is the list it resolves to; the migration its
\* catch branch leaves behind has settled too
StGetUserQRCodes(rem, loc, u, nid, t, okFetch, okRead, okWrite, okRefetch) ==
  LET localCodes == GetUserQRCodesLocal(loc, u) IN
  Only({
    LET firestoreIds == {f.value[k].id : k \in 1..Len(f.value)}
        localOnly == \E k \in 1..Len(localCodes) : localCodes[k].id \notin firestoreIds
        again == FsGetUserQRCodes(mig.remote, u, okRefetch)
    IN IF f.threw
         THEN [value |-> localCodes, remote |-> mig.remote, local |-> mig.local,
               nextId |-> mig.nextId]
       ELSE IF ~localOnly
         THEN [value |-> f.value, remote |-> mig.remote, local |-> mig.local,
               nextId |-> mig.nextId]
       ELSE IF ~again.threw
         THEN [value |-> again.value, remote |-> mig.remote, local |-> mig.local,
               nextId |-> mig.nextId]
       ELSE Only({[value |-> GetUserQRCodesLocal(mig.local, u), remote |-> bg.remote,
                   local |-> bg.local, nextId |-> bg.nextId] :
                    bg \in {StMigrateFromLocalStorage(mig.remote, mig.local, u,
                                                      mig.nextId, t, okRead, okWrite)}})
    : f \in {FsGetUserQRCodes(rem, u, okFetch)},
      mig \in {StMigrateFromLocalStorage(rem, loc, u, nid, t, okRead, okWrite)}})

\* ----------------------------------------------------------- importQRCodes
\* an element of the imported array: null, or an object whose absent
\* fields are ""
Item(name, type, data, config) ==
  [null |-> FALSE, name |-> name, type |-> type, data |-> data, config |-> config]

NullItem == [null |-> TRUE, name |-> "", type |-> "", data |-> "", config |-> ""]

ImportItems ==
  {Item("a", "url", "d", "c"), Item("a|url", "email", "d", "c"), Item("a", "url", "email|d", "c"),
   Item("", "url", "d", "c"), Item("a", "", "d", "c"), Item("a", "url", "", "c"),
   Item("a", "url", "d", ""), NullItem}

\* jsonData: text JSON.parse rejects, the text of an object, or of an array
\* of at most MaxItems elements
Jsons ==
  {[kind |-> "invalid", items |-> <<>>], [kind |-> "object", items |-> <<>>]}
  \cup {[kind |-> "array", items |-> items] :
          items \in UNION {[1..n -> ImportItems] : n \in 0..MaxItems}}

\* `${code.name}|${code.type}|${code.data}`
Identifier(code) == code.name \o "|" \o code.type \o "|" \o code.data

\* the argument importQRCodes passes to saveQRCode
ImportDraft(item, u) ==
  [name |-> item.name, type |-> item.type, data |-> item.data, userId |-> u,
   isActive |-> TRUE, tags |-> "undefined", description |-> "undefined"]

\* an import that stops at the first item it does not save
RECURSIVE ImportLoopStops(_, _, _, _, _, _)
ImportLoopStops(items, acc, u, t, okSet, okGet) ==
  IF items = <<>> THEN acc
  ELSE LET code == Head(items)
           id1 == acc.nextId + 1
           id2 == IF okSet /\ ~okGet THEN id1 + 1 ELSE id1
           s == StSaveQRCode(acc.remote, acc.local, ImportDraft(code, u),
                             id1, id2, t, okSet, okGet)
       IN IF code.null
            THEN [acc EXCEPT !.errors = Append(@, "error"),
                               !.outcomes = Append(@, "error")]
          ELSE IF code.name = "" \/ code.type = "" \/ code.data = ""
                  \/ code.config = ""
            THEN [acc EXCEPT !.errors = Append(@, "invalid"),
                               !.outcomes = Append(@, "invalid")]
          ELSE IF Identifier(code) \in acc.identifiers
            THEN [acc EXCEPT !.errors = Append(@, "exists"),
                               !.outcomes = Append(@, "exists")]
          ELSE ImportLoopStops(Tail(items),
                 [acc EXCEPT !.remote = s.remote, !.local = s.local,
                             !.nextId = id2, !.success = @ + 1,
                             !.saved = Append(@, s.value),
                             !.outcomes = Append(@, "saved"),
                             !.identifiers = @ \cup {Identifier(code)}],
                 u, t, okSet, okGet)

\* the for loop of importQRCodes: acc holds the two stores, the ids
\* generated, successCount, errors, existingCodeIdentifiers and, as
\* history, the entities saved and what became of each item
RECURSIVE ImportLoop(_, _, _, _, _, _)
ImportLoop(items, acc, u, t, okSet, okGet) ==
  IF items = <<>> THEN acc
  ELSE LET code == Head(items)
           id1 == acc.nextId + 1
           id2 == IF okSet /\ ~okGet THEN id1 + 1 ELSE id1
           s == StSaveQRCode(acc.remote, acc.local, ImportDraft(code, u),
                             id1, id2, t, okSet, okGet)
       IN Only({ImportLoop(Tail(items), next, u, t, okSet, okGet) :
            next \in {
              IF code.null
                THEN [acc EXCEPT !.errors = Append(@, "error"),
                                 !.outcomes = Append(@, "error")]
              ELSE IF code.name = "" \/ code.type = "" \/ code.data = ""
                      \/ code.config = ""
                THEN [acc EXCEPT !.errors = Append(@, "invalid"),
                                 !.outcomes = Append(@, "invalid")]
              ELSE IF Identifier(code) \in acc.identifiers
                THEN [acc EXCEPT !.errors = Append(@, "exists"),
                                 !.outcomes = Append(@, "exists")]
              ELSE [acc EXCEPT !.remote = s.remote, !.local = s.local,
                               !.nextId = id2, !.success = @ + 1,
                               !.saved = Append(@, s.value),
                               !.outcomes = Append(@, "saved"),
                               !.identifiers = @ \cup {Identifier(code)}]}})

\* importQRCodes: value is what it resolves to, existing the list
\* getUserQRCodes gave it, saved the entities it saved, outcomes what
\* became of each item. The migration a failed list read leaves in the
\* background is taken to settle before the first item is saved.
StImportQRCodes(rem, loc, u, nid, t, json, okFetch, okRead, okWrite, okRefetch, okSet, okGet) ==
  IF json.kind = "invalid"
    THEN [value |-> [success |-> 0, errors |-> <<"Invalid JSON format">>],
          remote |-> rem, local |-> loc, nextId |-> nid,
          existing |-> <<>>, saved |-> <<>>, outcomes |-> <<>>]
  ELSE Only({
    IF json.kind = "object"
      THEN [value |-> [success |-> 0, errors |-> <<"Invalid JSON format">>],
            remote |-> g.remote, local |-> g.local, nextId |-> g.nextId,
            existing |-> g.value, saved |-> <<>>, outcomes |-> <<>>]
    ELSE Only({[value |-> [success |-> acc.success, errors |-> acc.errors],
                remote |-> acc.remote, local |-> acc.local,
                nextId |-> acc.nextId, existing |-> g.value,
                saved |-> acc.saved, outcomes |-> acc.outcomes] :
           acc \in {ImportLoop(json.items,
                      [remote |-> g.remote, local |-> g.local,
                       nextId |-> g.nextId, success |-> 0, errors |-> <<>>,
                       saved |-> <<>>, outcomes |-> <<>>,
                       identifiers |->
                         {Identifier(g.value[k]) : k \in 1..Len(g.value)}],
                      u, t, okSet, okGet)}})
    : g \in {StGetUserQRCodes(rem, loc, u, nid, t, okFetch, okRead, okWrite,
                              okRefetch)}})

\* ------------------------------------------------------------ bookkeeping
IdleTask ==
  [pc |-> "idle", user |-> "", cont |-> "", codes |-> <<>>, existing |-> {},
   i |-> 0, stamp |-> 0, fs |-> <<>>, failed |-> FALSE, pend |-> {}]

InRemote(id) == remote[id] # NoData
InCache(u, id) == HasId(GetUserQRCodesLocal(local, u), id)

\* the remote documents that are copies of the saved entity o
RemoteCopies(o) == {i \in Ids : remote[i] # NoData /\ origin[i] = o}

\* the cached codes that are copies of the saved entity o
CacheCopies(o) ==
  {c \in UNION {{GetUserQRCodesLocal(local, u)[k] :
                   k \in 1..Len(GetUserQRCodesLocal(local, u))} : u \in AllUsers} :
     origin[c.id] = o}

\* the saved entity o is held by some store
Present(o) == RemoteCopies(o) # {} \/ CacheCopies(o) # {}

\* the two stores, the clock and the histories after construction
Fresh ==
  /\ remote = [i \in Ids |-> NoData]
  /\ local = [u \in AllUsers |-> NoKey]
  /\ nextId = 0
  /\ now = 1
  /\ tasks = [t \in {1, 2} |-> IdleTask]
  /\ scanRemote = <<>>
  /\ scanLocal = [u \in AllUsers |-> <<>>]
  /\ docRemote = [d \in DocIds |-> NoDocument]
  /\ thrown = ""
  /\ origin = [i \in Ids |-> 0]
  /\ live = {}
  /\ pending = {}
  /\ tracked = [i \in Ids |-> 0]
  /\ returned = [i \in Ids |-> 0]
  /\ subs = [k \in Kinds |-> NoSub]
  /\ result = NoImport
  /\ statsRun = NoRun
  /\ analytics = NoAnalytics
  /\ dataset = <<>>
  /\ docLocal = [u \in AllUsers |-> NoDocuments]
  /\ docPass = NoPass
  /\ midPass = {}
  /\ link = NoLink

Init == Fresh /\ call = NoCall

\* the same state, the facade calls of the run being observed
InitObserved == Fresh /\ call = Observing
\* ------------------------------------------------- QRCodeStorage handlers
\* the record of a facade call: what it was handed, what it resolved to and
\* the two stores as it found them
Observed(op, u, id, updates, value) ==
  IF call.on
    THEN [on |-> TRUE, op |-> op, user |-> u, id |-> id, updates |-> updates,
          value |-> value, remote |-> remote, local |-> local]
  ELSE call

\* Date.now() moves on
Tick ==
  /\ now < MaxTime
  /\ now' = now + 1
  /\ UNCHANGED <<remote, local, nextId, tasks, scanRemote, scanLocal,
                 docRemote, thrown, origin, live, pending, tracked, returned, subs, result, statsRun, analytics, call, docLocal, docPass, midPass, link,
                 dataset>>

\* the draft a caller hands to saveQRCode
Draft(u, name) ==
  [name |-> name, type |-> "url", data |-> "d", userId |-> u,
   isActive |-> TRUE, tags |-> "undefined", description |-> "undefined"]

\* a generateId that returns the same id at every call
SaveIdsRepeated(okSet, okGet) == [id1 |-> 1, id2 |-> 1]

\* the ids the two generateId calls of one saveQRCode call return: both
\* leave an entity when the remote write succeeds and the read-back fails
SaveIds(okSet, okGet) ==
  [id1 |-> nextId + 1,
   id2 |-> IF okSet /\ ~okGet THEN nextId + 2 ELSE nextId + 1]

\* a migration pass of user u waits for one of its remote calls
Suspended(u) ==
  \E t \in DOMAIN tasks : tasks[t].pc \in {"M1", "M2"} /\ tasks[t].user = u

SaveQRCode(u, name, okSet, okGet) ==
  LET ids == SaveIds(okSet, okGet)
      r == StSaveQRCode(remote, local, Draft(u, name), ids.id1, ids.id2, now,
                        okSet, okGet)
  IN /\ ids.id2 <= MaxIds
     /\ remote' = r.remote
     /\ local' = r.local
     /\ nextId' = ids.id2
     /\ origin' = [i \in Ids |-> IF i \in {ids.id1, ids.id2} THEN r.value.id
                                 ELSE origin[i]]
     /\ live' = live \cup {r.value.id}
     /\ thrown' = ""
     /\ midPass' = IF Suspended(u) THEN midPass \cup {r.value.id} ELSE midPass
     /\ UNCHANGED <<now, tasks, scanRemote, scanLocal, docRemote, pending,
                    tracked, returned, subs, result, statsRun, analytics, call, docLocal, docPass,
                 link, dataset>>

\* the drafts a caller may hand to saveQRCode
Drafts ==
  [name : Names, type : Types, data : DataValues, userId : Users,
   isActive : BOOLEAN, tags : TagValues, description : DescriptionValues]

\* QRCodeFirestore.saveQRCode called on its own: it rejects when setDoc does
FirestoreSave(draft, ok) ==
  LET id == nextId + 1
      r == FsSaveQRCode(remote, draft, id, now, ok)
  IN /\ id <= MaxIds
     /\ remote' = r.remote
     /\ nextId' = id
     /\ origin' = IF ok THEN [origin EXCEPT ![id] = id] ELSE origin
     /\ live' = IF ok THEN live \cup {id} ELSE live
     /\ thrown' = IF ok THEN "" ELSE "saveQRCode"
     /\ UNCHANGED <<local, now, tasks, scanRemote, scanLocal, docRemote,
                    pending, tracked, returned, subs, result, statsRun, analytics, call, docLocal, docPass, midPass, link,
                 dataset>>

GetQRCode(u, id, ok) ==
  /\ id \in 1..nextId
  /\ thrown' = ""
  /\ call' = Observed("get", u, id, <<>>, StGetQRCode(remote, local, u, id, ok))
  /\ UNCHANGED <<remote, local, nextId, now, tasks, scanRemote, scanLocal,
                 docRemote, origin, live, pending, tracked, returned, subs, result, statsRun, analytics,
                 docLocal, docPass, midPass, link, dataset>>

GetQRCodeStats(u, ok) ==
  /\ thrown' = ""
  /\ UNCHANGED <<remote, local, nextId, now, tasks, scanRemote, scanLocal,
                 docRemote, origin, live, pending, tracked, returned, subs, result, statsRun, analytics, call, docLocal, docPass, midPass, link,
                 dataset>>

\* the partial updates a caller passes
Partials == [name : Names]

UpdateQRCode(u, id, updates, ok) ==
  LET r == StUpdateQRCode(remote, local, u, id, updates, now, ok) IN
  /\ id \in 1..nextId
  /\ remote' = r.remote
  /\ local' = r.local
  /\ pending' = IF r.viaCache THEN pending \cup {id}
                ELSE IF r.value THEN pending \ {id} ELSE pending
  /\ thrown' = ""
  /\ call' = Observed("update", u, id, updates, r.value)
  /\ UNCHANGED <<nextId, now, tasks, scanRemote, scanLocal, docRemote,
                 origin, live, tracked, returned, subs, result, statsRun, analytics,
                 docLocal, docPass, midPass, link, dataset>>

DeleteQRCode(u, id, ok) ==
  LET r == StDeleteQRCode(remote, local, u, id, ok) IN
  /\ id \in 1..nextId
  /\ remote' = r.remote
  /\ local' = r.local
  /\ live' = IF r.value THEN live \ {origin[id]} ELSE live
  /\ pending' = IF r.value THEN pending \ {id} ELSE pending
  /\ thrown' = ""
  /\ call' = Observed("delete", u, id, <<>>, r.value)
  /\ UNCHANGED <<nextId, now, tasks, scanRemote, scanLocal, docRemote, origin,
                 tracked, returned, subs, result, statsRun, analytics,
                 docLocal, docPass, midPass, link, dataset>>

ToggleQRCodeStatus(u, id, okGet, okUpd, okGet2, okUpd2) ==
  LET r == StToggleQRCodeStatus(remote, local, u, id, now,
                                okGet, okUpd, okGet2, okUpd2) IN
  /\ id \in 1..nextId
  /\ remote' = r.remote
  /\ local' = r.local
  /\ thrown' = ""
  /\ call' = Observed("toggle", u, id, <<>>, r.value)
  /\ UNCHANGED <<nextId, now, tasks, scanRemote, scanLocal, docRemote,
                 origin, live, pending, tracked, returned, subs, result, statsRun, analytics,
                 docLocal, docPass, midPass, link, dataset>>

IncrementDownloadCount(u, id, okGet, okUpd, okGet2, okUpd2) ==
  LET r == StIncrementDownloadCount(remote, local, u, id, now,
                                    okGet, okUpd, okGet2, okUpd2) IN
  /\ id \in 1..nextId
  /\ remote[id].downloadCount < MaxCount
  /\ remote' = r.remote
  /\ local' = r.local
  /\ thrown' = ""
  /\ call' = Observed("incrementDownload", u, id, <<>>, r.value)
  /\ UNCHANGED <<nextId, now, tasks, scanRemote, scanLocal, docRemote,
                 origin, live, pending, tracked, returned, subs, result, statsRun, analytics,
                 docLocal, docPass, midPass, link, dataset>>

IncrementScanCount(u, id, okGet, okUpd, okGet2, okUpd2) ==
  LET r == StIncrementScanCount(remote, local, u, id, now,
                                okGet, okUpd, okGet2, okUpd2) IN
  /\ id \in 1..nextId
  /\ remote[id].scanCount < MaxCount
  /\ remote' = r.remote
  /\ local' = r.local
  /\ thrown' = ""
  /\ call' = Observed("incrementScan", u, id, <<>>, r.value)
  /\ UNCHANGED <<nextId, now, tasks, scanRemote, scanLocal, docRemote,
                 origin, live, pending, tracked, returned, subs, result, statsRun, analytics,
                 docLocal, docPass, midPass, link, dataset>>

\* ------------------------------------- getUserQRCodes and the migration
\* A task is one call in flight, resumed at each of its awaits:
\*   G1  getUserQRCodes awaits QRCodeFirestore.getUserQRCodes
\*   M1  migrateFromLocalStorage awaits the remote id set
\*   M2  migrateFromLocalStorage awaits saveQRCode of codes[i]
\*   G3  getUserQRCodes awaits the re-fetch after the migration
\* cont tells what resumes when the migration returns: "return" and
\* "refetch" inside getUserQRCodes, "bg" the call left behind by its catch
\* branch, "direct" a call of migrateFromLocalStorage itself.

IdsOf(codes) == {codes[k].id : k \in 1..Len(codes)}

\* the next index after i of a code whose id is not yet remote, 0 if none
NextTodo(codes, existing, i) ==
  LET todo == {k \in (i + 1)..Len(codes) : codes[k].id \notin existing} IN
  IF todo = {} THEN 0 ELSE CHOOSE k \in todo : \A j \in todo : k <= j

\* migrateFromLocalStorage up to its first await: the cached codes are read
MigTask(u, cont, fs) ==
  [pc |-> "M1", user |-> u, cont |-> cont, codes |-> local[u].codes,
   existing |-> {}, i |-> 0, stamp |-> 0, fs |-> fs, failed |-> FALSE,
   pend |-> pending \cap IdsOf(local[u].codes)]

\* a getUserQRCodes that answers a failed remote read with the empty list
ListFetchReturnEmpty(t, ok) ==
  LET u == tasks[t].user
      r == FsGetUserQRCodes(remote, u, ok)
  IN IF r.threw THEN [done |-> TRUE, value |-> <<>>]
     ELSE IF local[u].present THEN [done |-> FALSE, value |-> r.value]
     ELSE [done |-> TRUE, value |-> r.value]

\* what getUserQRCodes does when QRCodeFirestore.getUserQRCodes settles:
\* done tells whether it returns here, value what it returns
ListFetchReturn(t, ok) ==
  LET u == tasks[t].user
      r == FsGetUserQRCodes(remote, u, ok)
  IN IF r.threw THEN [done |-> TRUE, value |-> GetUserQRCodesLocal(local, u)]
     ELSE IF local[u].present THEN [done |-> FALSE, value |-> r.value]
     ELSE [done |-> TRUE, value |-> r.value]

\* what getUserQRCodes returns when the re-fetch settles
ListRefetchReturn(t, ok) ==
  LET u == tasks[t].user
      r == FsGetUserQRCodes(remote, u, ok)
  IN IF r.threw THEN [done |-> TRUE, value |-> GetUserQRCodesLocal(local, u)]
     ELSE [done |-> TRUE, value |-> r.value]

\* the task after the migration of tk returned: its caller resumes
Resume(tk) ==
  IF tk.cont = "refetch" THEN [tk EXCEPT !.pc = "G3"] ELSE IdleTask

ListStart(t, u) ==
  /\ tasks[t].pc = "idle"
  /\ tasks' = [tasks EXCEPT ![t] = [IdleTask EXCEPT !.pc = "G1", !.user = u]]
  /\ UNCHANGED <<remote, local, nextId, now, scanRemote, scanLocal,
                 docRemote, thrown, origin, live, pending, tracked, returned, subs, result, statsRun, analytics, call, docLocal, docPass, midPass, link,
                 dataset>>

ListFetch(t, ok) ==
  LET u == tasks[t].user
      r == FsGetUserQRCodes(remote, u, ok)
      localCodes == GetUserQRCodesLocal(local, u)
      localOnly == NextTodo(localCodes, IdsOf(r.value), 0) # 0
  IN /\ tasks[t].pc = "G1"
     /\ tasks' = [tasks EXCEPT ![t] =
          IF ~local[u].present THEN IdleTask
          ELSE IF r.threw THEN MigTask(u, "bg", <<>>)
          ELSE MigTask(u, IF localOnly THEN "refetch" ELSE "return", r.value)]
     /\ thrown' = ""
     /\ UNCHANGED <<remote, local, nextId, now, scanRemote, scanLocal,
                    docRemote, origin, live, pending, tracked, returned, subs, result, statsRun, analytics, call, docLocal, docPass, midPass, link,
                 dataset>>

MigrateStart(t, u) ==
  /\ tasks[t].pc = "idle"
  /\ local[u].present
  /\ tasks' = [tasks EXCEPT ![t] = MigTask(u, "direct", <<>>)]
  /\ UNCHANGED <<remote, local, nextId, now, scanRemote, scanLocal,
                 docRemote, thrown, origin, live, pending, tracked, returned, subs, result, statsRun, analytics, call, docLocal, docPass, midPass, link,
                 dataset>>

\* localStorage.removeItem(key)
RemoveItem(loc, u) == [loc EXCEPT ![u] = NoKey]

\* a migration that removes the cache key also when its remote read failed
MigReadClears(t, ok) ==
  LET tk == tasks[t]
      u == tk.user
      r == FsGetUserQRCodes(remote, u, ok)
      existingIds == IdsOf(r.value)
      first == NextTodo(tk.codes, existingIds, 0)
  IN /\ tk.pc = "M1"
     /\ IF r.threw
          THEN /\ tasks' = [tasks EXCEPT ![t] = Resume(tk)]
               /\ local' = RemoveItem(local, u)
               /\ UNCHANGED <<pending, dataset>>
        ELSE IF first = 0
          THEN /\ local' = RemoveItem(local, u)
               /\ pending' = pending \ IdsOf(GetUserQRCodesLocal(local, u))
               /\ dataset' = IF tk.cont = "direct" THEN tk.codes ELSE dataset
               /\ tasks' = [tasks EXCEPT ![t] = Resume(tk)]
        ELSE /\ tasks' = [tasks EXCEPT ![t] =
                  [tk EXCEPT !.pc = "M2", !.existing = existingIds,
                             !.i = first, !.stamp = now]]
             /\ UNCHANGED <<local, pending, dataset>>
     /\ thrown' = ""
     /\ UNCHANGED <<remote, nextId, now, scanRemote, scanLocal, docRemote,
                    origin, live, tracked,
                    returned, subs, result, statsRun, analytics, call, docLocal, docPass, midPass, link>>

\* migrateFromLocalStorage when its read of the remote id set settles
MigRead(t, ok) ==
  LET tk == tasks[t]
      u == tk.user
      r == FsGetUserQRCodes(remote, u, ok)
      existingIds == IdsOf(r.value)
      first == NextTodo(tk.codes, existingIds, 0)
  IN /\ tk.pc = "M1"
     /\ IF r.threw
          THEN /\ tasks' = [tasks EXCEPT ![t] = Resume(tk)]
               /\ UNCHANGED <<local, pending, dataset>>
        ELSE IF first = 0
          THEN /\ local' = RemoveItem(local, u)
               /\ pending' = pending \ IdsOf(GetUserQRCodesLocal(local, u))
               /\ dataset' = IF tk.cont = "direct" THEN tk.codes ELSE dataset
               /\ tasks' = [tasks EXCEPT ![t] = Resume(tk)]
        ELSE /\ tasks' = [tasks EXCEPT ![t] =
                  [tk EXCEPT !.pc = "M2", !.existing = existingIds,
                             !.i = first, !.stamp = now]]
             /\ UNCHANGED <<local, pending, dataset>>
     /\ thrown' = ""
     /\ UNCHANGED <<remote, nextId, now, scanRemote, scanLocal, docRemote,
                    origin, live, tracked,
                    returned, subs, result, statsRun, analytics, call, docLocal, docPass, midPass, link>>

\* a migration whose first failed write ends the pass in the outer catch
MigWriteAborts(t, ok) ==
  LET tk == tasks[t]
      u == tk.user
      code == tk.codes[tk.i]
      id == nextId + 1
      w == FsSaveQRCode(remote, DraftOf(code), id, tk.stamp, ok)
      next == NextTodo(tk.codes, tk.existing, tk.i)
  IN /\ tk.pc = "M2"
     /\ ok => id <= MaxIds
     /\ remote' = w.remote
     /\ nextId' = IF ok THEN id ELSE nextId
     /\ origin' = IF ok THEN [origin EXCEPT ![id] = origin[code.id]] ELSE origin
     /\ IF ~ok
          THEN /\ tasks' = [tasks EXCEPT ![t] = Resume(tk)]
               /\ UNCHANGED <<local, pending, dataset>>
        ELSE IF next = 0
          THEN /\ local' = RemoveItem(local, u)
               /\ pending' = pending \ IdsOf(GetUserQRCodesLocal(local, u))
               /\ dataset' = IF tk.cont = "direct" /\ ~tk.failed /\ ok
                               THEN tk.codes ELSE dataset
               /\ tasks' = [tasks EXCEPT ![t] = Resume(tk)]
        ELSE /\ tasks' = [tasks EXCEPT ![t] =
                  [tk EXCEPT !.i = next, !.stamp = now]]
             /\ UNCHANGED <<local, pending, dataset>>
     /\ thrown' = ""
     /\ UNCHANGED <<now, scanRemote, scanLocal, docRemote, live, tracked,
                    returned, subs, result, statsRun, analytics, call, docLocal, docPass, midPass, link>>

\* migrateFromLocalStorage when its saveQRCode call settles: the next
\* cached code not yet remote is written, after the last one the cache key
\* is removed
MigWrite(t, ok) ==
  LET tk == tasks[t]
      u == tk.user
      code == tk.codes[tk.i]
      id == nextId + 1
      w == FsSaveQRCode(remote, DraftOf(code), id, tk.stamp, ok)
      next == NextTodo(tk.codes, tk.existing, tk.i)
  IN /\ tk.pc = "M2"
     /\ ok => id <= MaxIds
     /\ remote' = w.remote
     /\ nextId' = IF ok THEN id ELSE nextId
     /\ origin' = IF ok THEN [origin EXCEPT ![id] = origin[code.id]] ELSE origin
     /\ IF next = 0
          THEN /\ local' = RemoveItem(local, u)
               /\ pending' = pending \ IdsOf(GetUserQRCodesLocal(local, u))
               /\ dataset' = IF tk.cont = "direct" /\ ~tk.failed /\ ok
                               THEN tk.codes ELSE dataset
               /\ tasks' = [tasks EXCEPT ![t] = Resume(tk)]
        ELSE /\ tasks' = [tasks EXCEPT ![t] =
                  [tk EXCEPT !.i = next, !.stamp = now,
                             !.failed = tk.failed \/ ~ok]]
             /\ UNCHANGED <<local, pending, dataset>>
     /\ thrown' = ""
     /\ UNCHANGED <<now, scanRemote, scanLocal, docRemote, live, tracked,
                    returned, subs, result, statsRun, analytics, call, docLocal, docPass, midPass, link>>

ListRefetch(t, ok) ==
  LET u == tasks[t].user
      r == FsGetUserQRCodes(remote, u, ok)
  IN /\ tasks[t].pc = "G3"
     /\ tasks' = [tasks EXCEPT ![t] =
          IF r.threw /\ local[u].present THEN MigTask(u, "bg", <<>>)
          ELSE IdleTask]
     /\ thrown' = ""
     /\ UNCHANGED <<remote, local, nextId, now, scanRemote, scanLocal,
                    docRemote, origin, live, pending, tracked, returned, subs, result, statsRun, analytics, call, docLocal, docPass, midPass, link,
                 dataset>>

\* ------------------------- increments in flight, resumed at their awaits
\*   I1  the increment awaits getQRCode
\*   I2  the increment awaits updateQRCode; codes holds the code it read,
\*       stamp the time of its new Date() calls
\* cont names the counter: "scanCount" or "downloadCount".
Counters == {"scanCount", "downloadCount"}

IncStart(t, id, counter) ==
  /\ tasks[t].pc = "idle"
  /\ id \in 1..nextId
  /\ tasks' = [tasks EXCEPT ![t] =
                 [IdleTask EXCEPT !.pc = "I1", !.i = id, !.cont = counter]]
  /\ UNCHANGED <<remote, local, nextId, now, scanRemote, scanLocal, docRemote,
                 thrown, origin, live, pending, tracked, returned, subs, result, statsRun, analytics, call, docLocal, docPass, midPass, link, dataset>>

\* getQRCode settles: a rejection or a missing document ends the call with
\* false, else updateQRCode is called with the count read plus one
IncRead(t, ok) ==
  LET tk == tasks[t]
      got == FsGetQRCode(remote, tk.i, ok)
  IN /\ tk.pc = "I1"
     /\ tasks' = [tasks EXCEPT ![t] =
          IF got.threw \/ got.value = NoDoc THEN IdleTask
          ELSE [tk EXCEPT !.pc = "I2", !.codes = <<got.value>>, !.stamp = now]]
     /\ thrown' = ""
     /\ UNCHANGED <<remote, local, nextId, now, scanRemote, scanLocal,
                    docRemote, origin, live, pending, tracked, returned, subs, result, statsRun, analytics, call, docLocal, docPass, midPass, link,
                    dataset>>

\* the updates the increment passes to updateQRCode
IncUpdates(counter, count, t) ==
  IF counter = "scanCount"
    THEN [scanCount |-> count + 1, lastScanned |-> t, lastAccessed |-> t]
  ELSE [downloadCount |-> count + 1, lastAccessed |-> t]

\* an increment that adds one to the count stored at the time of its write
IncWriteAtomic(t, ok) ==
  LET tk == tasks[t]
      id == tk.i
      upd == FsUpdateQRCode(remote, id,
               IncUpdates(tk.cont, FromFirestoreFormat(id, remote[id])[tk.cont],
                          tk.stamp),
               tk.stamp, ok)
  IN /\ tk.pc = "I2"
     /\ remote' = upd.remote
     /\ returned' = IF upd.threw THEN returned
                    ELSE [returned EXCEPT ![id] = @ + 1]
     /\ tasks' = [tasks EXCEPT ![t] = IdleTask]
     /\ thrown' = ""
     /\ UNCHANGED <<local, nextId, now, scanRemote, scanLocal, docRemote,
                    origin, live, pending, tracked, subs, result, statsRun, analytics, call, docLocal, docPass, midPass, link, dataset>>

\* updateQRCode settles: the call returns true, or false when it rejected
IncWrite(t, ok) ==
  LET tk == tasks[t]
      id == tk.i
      upd == FsUpdateQRCode(remote, id,
               IncUpdates(tk.cont, tk.codes[1][tk.cont], tk.stamp),
               tk.stamp, ok)
  IN /\ tk.pc = "I2"
     /\ remote' = upd.remote
     /\ returned' = IF upd.threw THEN returned
                    ELSE [returned EXCEPT ![id] = @ + 1]
     /\ tasks' = [tasks EXCEPT ![t] = IdleTask]
     /\ thrown' = ""
     /\ UNCHANGED <<local, nextId, now, scanRemote, scanLocal, docRemote,
                    origin, live, pending, tracked, subs, result, statsRun, analytics, call, docLocal, docPass, midPass, link, dataset>>

\* ------------------------------------------- ScanEventStorage, ScanTracker
\* saveScanEvent: one more document in scan_events, or a rejection
FsSaveScanEvent(log, event, ok) ==
  IF ok THEN [threw |-> FALSE, log |-> Append(log, event)]
  ELSE [threw |-> TRUE, log |-> log]

\* updated.slice(0, 1000): the oldest events are kept
FirstEvents(events) ==
  IF Len(events) > MAX_LOCAL_EVENTS THEN SubSeq(events, 1, MAX_LOCAL_EVENTS)
  ELSE events

\* updated.slice(-1000)
LastEvents(events) ==
  IF Len(events) > MAX_LOCAL_EVENTS
    THEN SubSeq(events, Len(events) - MAX_LOCAL_EVENTS + 1, Len(events))
  ELSE events

\* a storeScanEvent that never trims the local log
StoreScanEventUntrimmed(existing, event) == Append(existing, event)

\* storeScanEvent: append to the local log, keep the last 1000
StoreScanEvent(existing, event) == LastEvents(Append(existing, event))

\* a trackScan that stores the scan event whatever the increment returned
StTrackScanUngated(rem, loc, log, localLog, u, id, t, okGet, okUpd, okGet2, okUpd2, okEvent) ==
  LET r == StIncrementScanCount(rem, loc, u, id, t, okGet, okUpd, okGet2, okUpd2)
      scanEvent == [qrCodeId |-> id, userId |-> u, timestamp |-> t]
      e == FsSaveScanEvent(log, scanEvent, okEvent)
  IN [value |-> r.value, remote |-> r.remote, local |-> r.local,
      scanRemote |-> e.log,
      scanLocal |-> IF e.threw THEN StoreScanEvent(localLog, scanEvent)
                    ELSE localLog]

\* trackScan as an operator: value is what it resolves to
StTrackScan(rem, loc, log, localLog, u, id, t, okGet, okUpd, okGet2, okUpd2, okEvent) ==
  LET r == StIncrementScanCount(rem, loc, u, id, t, okGet, okUpd, okGet2, okUpd2)
      scanEvent == [qrCodeId |-> id, userId |-> u, timestamp |-> t]
      e == FsSaveScanEvent(log, scanEvent, okEvent)
  IN IF ~r.value
       THEN [value |-> FALSE, remote |-> r.remote, local |-> r.local,
             scanRemote |-> log, scanLocal |-> localLog]
     ELSE [value |-> TRUE, remote |-> r.remote, local |-> r.local,
           scanRemote |-> e.log,
           scanLocal |-> IF e.threw THEN StoreScanEvent(localLog, scanEvent)
                         ELSE localLog]

\* cap bounds the scan count the run may reach
TrackScan(u, id, okGet, okUpd, okGet2, okUpd2, okEvent, cap) ==
  LET r == StTrackScan(remote, local, scanRemote, scanLocal[u], u, id, now,
                       okGet, okUpd, okGet2, okUpd2, okEvent)
  IN /\ id \in 1..nextId
     /\ remote[id].scanCount < cap
     /\ remote' = r.remote
     /\ local' = r.local
     /\ scanRemote' = r.scanRemote
     /\ scanLocal' = [scanLocal EXCEPT ![u] = r.scanLocal]
     /\ tracked' = IF r.value THEN [tracked EXCEPT ![id] = @ + 1] ELSE tracked
     /\ thrown' = ""
     /\ UNCHANGED <<nextId, now, tasks, docRemote, origin, live, pending,
                    returned, subs, result, statsRun, analytics, call, docLocal, docPass, midPass, link, dataset>>

\* storeScanEvent called with the event trackScan built at this moment;
\* the next call comes at a later time
StoreEvent(u, id) ==
  LET event == [qrCodeId |-> id, userId |-> u, timestamp |-> now] IN
  /\ now <= MaxScans
  /\ scanLocal' = [scanLocal EXCEPT ![u] = StoreScanEvent(scanLocal[u], event)]
  /\ now' = now + 1
  /\ UNCHANGED <<remote, local, nextId, tasks, scanRemote, docRemote, thrown,
                 origin, live, pending, tracked, returned, subs, result, statsRun, analytics, call, docLocal, docPass, midPass, link, dataset>>

\* ------------------------------------------------------- DocumentStorage
\* saveDocument, getDocument, getUserDocuments and deleteDocument catch the
\* remote error, log it and throw it again
SaveDocument(u, d, ok) ==
  /\ docRemote' = IF ok THEN [docRemote EXCEPT ![d] =
                                [id |-> d, userId |-> u, uploadedAt |-> now]]
                  ELSE docRemote
  /\ thrown' = IF ok THEN "" ELSE "saveDocument"
  /\ UNCHANGED <<remote, local, nextId, now, tasks, scanRemote, scanLocal,
                 origin, live, pending, tracked, returned, subs, result, statsRun, analytics, call, docLocal, docPass, midPass, link,
                 dataset>>

GetDocument(d, ok) ==
  /\ thrown' = IF ok THEN "" ELSE "getDocument"
  /\ UNCHANGED <<remote, local, nextId, now, tasks, scanRemote, scanLocal,
                 docRemote, origin, live, pending, tracked, returned, subs, result, statsRun, analytics, call, docLocal, docPass, midPass, link,
                 dataset>>

GetUserDocuments(u, ok) ==
  /\ thrown' = IF ok THEN "" ELSE "getUserDocuments"
  /\ UNCHANGED <<remote, local, nextId, now, tasks, scanRemote, scanLocal,
                 docRemote, origin, live, pending, tracked, returned, subs, result, statsRun, analytics, call, docLocal, docPass, midPass, link,
                 dataset>>

DeleteDocument(d, ok) ==
  /\ docRemote' = IF ok THEN [docRemote EXCEPT ![d] = NoDocument] ELSE docRemote
  /\ thrown' = IF ok THEN "" ELSE "deleteDocument"
  /\ UNCHANGED <<remote, local, nextId, now, tasks, scanRemote, scanLocal,
                 origin, live, pending, tracked, returned, subs, result, statsRun, analytics, call, docLocal, docPass, midPass, link,
                 dataset>>

\* query(collection, where userId == u): the matching documents, by id,
\* each without its userId
RECURSIVE QueryDocs(_, _, _)
QueryDocs(docs, u, d) ==
  IF d \notin DocIds THEN <<>>
  ELSE IF docs[d] # NoDocument /\ docs[d].userId = u
    THEN <<[id |-> docs[d].id, uploadedAt |-> docs[d].uploadedAt]>>
         \o QueryDocs(docs, u, d + 1)
  ELSE QueryDocs(docs, u, d + 1)

\* one insertion of documents.sort((a, b) => dateB - dateA), which is stable
RECURSIVE InsertByUploaded(_, _)
InsertByUploaded(sorted, e) ==
  IF sorted = <<>> THEN <<e>>
  ELSE IF Head(sorted).uploadedAt >= e.uploadedAt
    THEN <<Head(sorted)>> \o InsertByUploaded(Tail(sorted), e)
  ELSE <<e>> \o sorted

RECURSIVE SortByUploaded(_)
SortByUploaded(documents) ==
  IF documents = <<>> THEN <<>>
  ELSE InsertByUploaded(SortByUploaded(SubSeq(documents, 1, Len(documents) - 1)),
                        documents[Len(documents)])

FsGetUserDocuments(docs, u, ok) ==
  IF ok THEN [threw |-> FALSE, value |-> SortByUploaded(QueryDocs(docs, u, 1))]
  ELSE [threw |-> TRUE, value |-> <<>>]

\* ---------------------- subscribeToUserQRCodes, subscribeToUserDocuments
\* the list the snapshot handler builds from the documents of the query
SnapshotList(kind, u) ==
  IF kind = "qr" THEN SortByUpdated(QueryFrom(remote, u, 1))
  ELSE SortByUploaded(QueryDocs(docRemote, u, 1))

\* this.getUserQRCodes(userId) or this.getUserDocuments(userId)
FallbackFetch(kind, u, ok) ==
  IF kind = "qr" THEN FsGetUserQRCodes(remote, u, ok)
  ELSE FsGetUserDocuments(docRemote, u, ok)

\* the subscribe call: onSnapshot registers the listener, or throws and the
\* catch branch starts the one-time read and returns an empty unsubscribe
Subscribe(kind, u, ok) ==
  /\ \A k \in Kinds : subs[k].state = "none"
  /\ subs' = [subs EXCEPT ![kind] =
       IF ok THEN [@ EXCEPT !.state = "active", !.user = u]
       ELSE [@ EXCEPT !.state = "broken", !.user = u, !.fetches = 1,
                      !.errors = 1]]
  /\ UNCHANGED <<remote, local, nextId, now, tasks, scanRemote, scanLocal,
                 docRemote, thrown, origin, live, pending, tracked, returned, result, statsRun, analytics, call, docLocal, docPass, midPass, link,
                 dataset>>

\* a snapshot handler that passes the documents on in the order of the query
NotifyUnsorted(kind, cbThrows) ==
  LET sub == subs[kind]
      list == IF kind = "qr" THEN QueryFrom(remote, sub.user, 1)
              ELSE QueryDocs(docRemote, sub.user, 1)
  IN /\ sub.state = "active"
     /\ sub.notes < MaxCalls
     /\ subs' = [subs EXCEPT ![kind] =
          [sub EXCEPT !.calls = @ + 1, !.notes = @ + 1, !.delivered = list,
                      !.fetches = IF cbThrows THEN @ + 1 ELSE @,
                      !.threw = @ \/ cbThrows]]
     /\ UNCHANGED <<remote, local, nextId, now, tasks, scanRemote, scanLocal,
                    docRemote, thrown, origin, live, pending, tracked,
                    returned, result, statsRun, analytics, call, docLocal, docPass, midPass, link, dataset>>

\* the listener receives a snapshot: the callback gets the sorted list; when
\* the callback throws, the catch branch starts the one-time read
Notify(kind, cbThrows) ==
  LET sub == subs[kind]
      list == SnapshotList(kind, sub.user)
  IN /\ sub.state = "active"
     /\ sub.notes < MaxCalls
     /\ subs' = [subs EXCEPT ![kind] =
          [sub EXCEPT !.calls = @ + 1, !.notes = @ + 1, !.delivered = list,
                      !.fetches = IF cbThrows THEN @ + 1 ELSE @,
                      !.threw = @ \/ cbThrows]]
     /\ UNCHANGED <<remote, local, nextId, now, tasks, scanRemote, scanLocal,
                    docRemote, thrown, origin, live, pending, tracked,
                    returned, result, statsRun, analytics, call, docLocal, docPass, midPass, link, dataset>>

\* the listener receives an error, which ends it: the one-time read starts
SubError(kind) ==
  LET sub == subs[kind] IN
  /\ sub.state = "active"
  /\ subs' = [subs EXCEPT ![kind] =
       [sub EXCEPT !.state = "ended", !.fetches = @ + 1, !.errors = @ + 1]]
  /\ UNCHANGED <<remote, local, nextId, now, tasks, scanRemote, scanLocal,
                 docRemote, thrown, origin, live, pending, tracked, returned, result, statsRun, analytics, call, docLocal, docPass, midPass, link,
                 dataset>>

\* a one-time read settles: .then(callback) hands its list to the callback,
\* .catch(() => callback([])) the empty list when the read rejected or the
\* callback threw; nothing looks at whether unsubscribe was called
FetchSettle(kind, ok, cbThrows) ==
  LET sub == subs[kind]
      r == FallbackFetch(kind, sub.user, ok)
      n == IF ~r.threw /\ cbThrows THEN 2 ELSE 1
  IN /\ sub.fetches > 0
     /\ subs' = [subs EXCEPT ![kind] =
          [sub EXCEPT !.fetches = @ - 1,
                      !.calls = @ + n,
                      !.delivered = IF r.threw \/ cbThrows THEN <<>>
                                    ELSE r.value,
                      !.threw = @ \/ (n = 2)]]
     /\ UNCHANGED <<remote, local, nextId, now, tasks, scanRemote, scanLocal,
                    docRemote, thrown, origin, live, pending, tracked,
                    returned, result, statsRun, analytics, call, docLocal, docPass, midPass, link, dataset>>

\* the caller calls the function subscribe returned
Unsubscribe(kind) ==
  /\ subs[kind].state \in {"active", "ended", "broken"}
  /\ subs' = [subs EXCEPT ![kind].state = "closed"]
  /\ UNCHANGED <<remote, local, nextId, now, tasks, scanRemote, scanLocal,
                 docRemote, thrown, origin, live, pending, tracked, returned, result, statsRun, analytics, call, docLocal, docPass, midPass, link,
                 dataset>>

\* the collection with room for the ids of a call that generates more than
\* MaxIds of them; such a call is left out below
Wide(rem) ==
  [i \in 1..(3 * MaxIds + 2 * MaxItems) |-> IF i \in Ids THEN rem[i] ELSE NoData]

\* the (name, type, data) triple of an entity or of an item
Triple(code) == <<code.name, code.type, code.data>>

\* the triples of the entities user u holds in either store
UserTriples(u) ==
  {Triple(remote[i]) : i \in {j \in Ids : remote[j] # NoData /\ remote[j].userId = u}}
  \cup {Triple(GetUserQRCodesLocal(local, u)[k]) :
          k \in 1..Len(GetUserQRCodesLocal(local, u))}

\* one importQRCodes call, from its start to the promise it returns
ImportQRCodes(u, json, okFetch, okRead, okWrite, okRefetch, okSet, okGet) ==
  \E r \in {StImportQRCodes(Wide(remote), local, u, nextId, now, json, okFetch,
                             okRead, okWrite, okRefetch, okSet, okGet)} :
     /\ r.nextId <= MaxIds
     /\ remote' = [i \in Ids |-> r.remote[i]]
     /\ local' = r.local
     /\ nextId' = r.nextId
     /\ result' = [calls |-> result.calls + 1, json |-> json,
                   value |-> r.value, existing |-> r.existing,
                   saved |-> r.saved, outcomes |-> r.outcomes,
                   entities |-> UserTriples(u)]
     /\ thrown' = ""
     /\ UNCHANGED <<now, tasks, scanRemote, scanLocal, docRemote, origin, live,
                    pending, tracked, returned, subs, statsRun, analytics, call, docLocal, docPass, midPass, link, dataset>>

\* ------------------------------------------------------- getScanAnalytics
\* one insertion of orderBy('timestamp', 'desc')
RECURSIVE InsertByTimestamp(_, _)
InsertByTimestamp(sorted, e) ==
  IF sorted = <<>> THEN <<e>>
  ELSE IF Head(sorted).timestamp >= e.timestamp
    THEN <<Head(sorted)>> \o InsertByTimestamp(Tail(sorted), e)
  ELSE <<e>> \o sorted

RECURSIVE SortByTimestamp(_)
SortByTimestamp(events) ==
  IF events = <<>> THEN <<>>
  ELSE InsertByTimestamp(SortByTimestamp(SubSeq(events, 1, Len(events) - 1)),
                         events[Len(events)])

\* ScanEventStorage.getUserScanEvents: where userId == u, newest first, at
\* most limitCount of them
FsGetUserScanEvents(log, u, ok) ==
  LET mine == SortByTimestamp(SelectSeq(log, LAMBDA e : e.userId = u)) IN
  IF ok THEN [threw |-> FALSE,
              value |-> SubSeq(mine, 1, IF Len(mine) < EVENT_LIMIT THEN Len(mine)
                                        ELSE EVENT_LIMIT)]
  ELSE [threw |-> TRUE, value |-> <<>>]

\* ScanTracker.getScanEvents(userId): the remote events, the local log of
\* the user when the remote read rejects
StGetScanEvents(log, localLog, u, ok) ==
  LET r == FsGetUserScanEvents(log, u, ok) IN
  IF r.threw THEN localLog ELSE r.value

\* the keys of eventsByQR, in the order the reduce inserted them
RECURSIVE EventKeys(_, _)
EventKeys(events, seen) ==
  IF events = <<>> THEN seen
  ELSE EventKeys(Tail(events),
                 IF \E k \in 1..Len(seen) : seen[k] = Head(events).qrCodeId
                   THEN seen ELSE Append(seen, Head(events).qrCodeId))

\* eventsByQR[qrCodeId]
EventsOf(events, id) == SelectSeq(events, LAMBDA e : e.qrCodeId = id)

\* Object.entries(eventsByQR).map(...).filter(item => item.qrCode)
RECURSIVE ScanEntries(_, _, _)
ScanEntries(events, codes, keys) ==
  IF keys = <<>> THEN <<>>
  ELSE LET mine == EventsOf(events, Head(keys)) IN
       (IF HasId(codes, Head(keys))
          THEN <<[qrCode |-> Head(keys), scanCount |-> Len(mine),
                  lastScan |-> mine[Len(mine)].timestamp]>>
        ELSE <<>>)
       \o ScanEntries(events, codes, Tail(keys))

\* one insertion of sort((a, b) => b.scanCount - a.scanCount)
RECURSIVE InsertByScanCount(_, _)
InsertByScanCount(sorted, e) ==
  IF sorted = <<>> THEN <<e>>
  ELSE IF Head(sorted).scanCount >= e.scanCount
    THEN <<Head(sorted)>> \o InsertByScanCount(Tail(sorted), e)
  ELSE <<e>> \o sorted

RECURSIVE SortByScanCount(_)
SortByScanCount(entries) ==
  IF entries = <<>> THEN <<>>
  ELSE InsertByScanCount(SortByScanCount(SubSeq(entries, 1, Len(entries) - 1)),
                         entries[Len(entries)])

\* what getScanAnalytics computes from the events and the codes it
\* fetched; averageScansPerCode and the two trailing-window counts are
\* left out
ComputeAnalytics(events, codes) ==
  LET keys == EventKeys(events, <<>>)
      sorted == SortByScanCount(ScanEntries(events, codes, keys))
  IN [totalScans |-> Len(events),
      uniqueQRCodes |-> Len(keys),
      mostScanned |-> SubSeq(sorted, 1, IF Len(sorted) < MOST_SCANNED
                                          THEN Len(sorted) ELSE MOST_SCANNED)]

\* one getScanAnalytics call, from its start to the promise it returns
GetScanAnalytics(u, okEvents, okFetch, okRead, okWrite, okRefetch) ==
  \E g \in {StGetUserQRCodes(Wide(remote), local, u, nextId, now, okFetch,
                             okRead, okWrite, okRefetch)} :
    LET events == StGetScanEvents(scanRemote, scanLocal[u], u, okEvents) IN
    /\ g.nextId <= MaxIds
    /\ remote' = [i \in Ids |-> g.remote[i]]
    /\ local' = g.local
    /\ nextId' = g.nextId
    /\ analytics' = [calls |-> analytics.calls + 1,
                     source |-> IF okEvents THEN "remote" ELSE "local",
                     user |-> u, events |-> events, codes |-> g.value,
                     value |-> ComputeAnalytics(events, g.value)]
    /\ thrown' = ""
    /\ UNCHANGED <<now, tasks, scanRemote, scanLocal, docRemote, origin, live,
                   pending, tracked, returned, subs, result, statsRun, call, docLocal, docPass, midPass, link, dataset>>

\* ---------------------------------------------------------- getQRCodeStats
\* the entity at place id of a list of a user's codes
StatCode(id, type, isActive, scanCount, downloadCount, updatedAt) ==
  [NoDoc EXCEPT !.id = id, !.userId = "u1", !.name = "a", !.type = type,
                !.data = "d", !.isActive = isActive, !.scanCount = scanCount,
                !.downloadCount = downloadCount, !.createdAt = 1,
                !.updatedAt = updatedAt, !.tags = "undefined",
                !.description = "undefined"]

\* the entities a list may hold at place id
StatCodes(id) ==
  {StatCode(id, "url", TRUE, 0, 0, 1), StatCode(id, "email", FALSE, 1, 1, 2),
   StatCode(id, "url", TRUE, 2, 2, 2), StatCode(id, "email", TRUE, 0, 1, 1)}

\* the lists of n codes, in the order of the store
RECURSIVE ListsOf(_)
ListsOf(n) ==
  IF n = 0 THEN {<<>>}
  ELSE {Append(list, code) : list \in ListsOf(n - 1), code \in StatCodes(n)}

\* the lists of at most MaxList codes
CodeLists == UNION {ListsOf(n) : n \in 0..MaxList}

\* QRCodeFirestore.getQRCodeStats for a user whose documents are codes:
\* getUserQRCodes sorts them before the statistics are computed; a failed
\* read is answered with the statistics of no codes
StatsRemote(codes, ok) ==
  LET r == IF ok THEN [threw |-> FALSE, value |-> SortByUpdated(codes)]
           ELSE [threw |-> TRUE, value |-> <<>>]
  IN /\ statsRun' = [branch |-> "remote", codes |-> codes,
                     received |-> r.value,
                     value |-> IF r.threw THEN ZeroStats
                               ELSE ComputeStats(r.value)]
     /\ thrown' = ""
     /\ UNCHANGED <<remote, local, nextId, now, tasks, scanRemote, scanLocal,
                    docRemote, origin, live, pending, tracked, returned, subs,
                    result, analytics, call, docLocal, docPass, midPass, link, dataset>>

\* the catch branch of QRCodeStorage.getQRCodeStats for a user whose cache
\* holds codes: the statistics of the cached list as it is stored
StatsCache(codes) ==
  /\ statsRun' = [branch |-> "cache", codes |-> codes, received |-> codes,
                  value |-> ComputeStats(codes)]
  /\ thrown' = ""
  /\ UNCHANGED <<remote, local, nextId, now, tasks, scanRemote, scanLocal,
                 docRemote, origin, live, pending, tracked, returned, subs,
                 result, analytics, call, docLocal, docPass, midPass, link, dataset>>

\* --------------------------------------------------------- specifications
SeqTasks == {1}
ConcTasks == {1, 2}

\* no list or migration call is in flight
AllIdle == \A t \in DOMAIN tasks : tasks[t].pc = "idle"

\* Spec: saves, updates, deletes and lists of one session, each call made
\* when the one before has settled, under any pattern of remote failures
Next ==
  \/ \E u \in Users, name \in Names, okSet, okGet \in BOOLEAN :
       AllIdle /\ nextId < MaxSaved /\ SaveQRCode(u, name, okSet, okGet)
  \/ \E u \in Users, id \in Ids, updates \in Partials, ok \in BOOLEAN :
       AllIdle /\ UpdateQRCode(u, id, updates, ok)
  \/ \E u \in Users, id \in Ids, ok \in BOOLEAN :
       AllIdle /\ DeleteQRCode(u, id, ok)
  \/ \E t \in SeqTasks, u \in Users : ListStart(t, u)
  \/ \E t \in SeqTasks, ok \in BOOLEAN : ListFetch(t, ok)
  \/ \E t \in SeqTasks, ok \in BOOLEAN : MigRead(t, ok)
  \/ \E t \in SeqTasks, ok \in BOOLEAN : MigWrite(t, ok)
  \/ \E t \in SeqTasks, ok \in BOOLEAN : ListRefetch(t, ok)

Spec == Init /\ [][Next]_vars

\* SpecCounters: one saveQRCode call, then toggles and increments on what
\* it left in the two stores
NextCounters ==
  \/ Tick
  \/ \E u \in Users, name \in Names, okSet, okGet \in BOOLEAN :
       nextId = 0 /\ SaveQRCode(u, name, okSet, okGet)
  \/ \E u \in Users, id \in Ids, okGet, okUpd, okFb \in BOOLEAN :
       ToggleQRCodeStatus(u, id, okGet, okUpd, okFb, okFb)
  \/ \E u \in Users, id \in Ids, okGet, okUpd, okFb \in BOOLEAN :
       IncrementDownloadCount(u, id, okGet, okUpd, okFb, okFb)
  \/ \E u \in Users, id \in Ids, okGet, okUpd, okFb \in BOOLEAN :
       IncrementScanCount(u, id, okGet, okUpd, okFb, okFb)

SpecCounters == Init /\ [][NextCounters]_vars

\* SpecApi: the public operations of both entity kinds, each called when
\* the one before has settled
NextApi ==
  \/ \E u \in Users, name \in Names, okSet, okGet \in BOOLEAN :
       AllIdle /\ nextId < MaxCodes /\ SaveQRCode(u, name, okSet, okGet)
  \/ \E u \in Users, id \in Ids, ok \in BOOLEAN :
       AllIdle /\ GetQRCode(u, id, ok)
  \/ \E u \in Users, id \in Ids, updates \in Partials, ok \in BOOLEAN :
       AllIdle /\ UpdateQRCode(u, id, updates, ok)
  \/ \E u \in Users, id \in Ids, ok \in BOOLEAN :
       AllIdle /\ DeleteQRCode(u, id, ok)
  \/ \E u \in Users, id \in Ids, okGet, okUpd, okFb \in BOOLEAN :
       AllIdle /\ ToggleQRCodeStatus(u, id, okGet, okUpd, okFb, okFb)
  \/ \E u \in Users, id \in Ids, okGet, okUpd, okFb \in BOOLEAN :
       AllIdle /\ IncrementDownloadCount(u, id, okGet, okUpd, okFb, okFb)
  \/ \E u \in Users, id \in Ids, okGet, okUpd, okFb \in BOOLEAN :
       AllIdle /\ IncrementScanCount(u, id, okGet, okUpd, okFb, okFb)
  \/ \E u \in Users, ok \in BOOLEAN : AllIdle /\ GetQRCodeStats(u, ok)
  \/ \E t \in SeqTasks, u \in Users : ListStart(t, u)
  \/ \E t \in SeqTasks, ok \in BOOLEAN : ListFetch(t, ok)
  \/ \E t \in SeqTasks, ok \in BOOLEAN : MigRead(t, ok)
  \/ \E t \in SeqTasks, ok \in BOOLEAN : MigWrite(t, ok)
  \/ \E t \in SeqTasks, ok \in BOOLEAN : ListRefetch(t, ok)
  \/ \E u \in Users, d \in {1}, ok \in BOOLEAN :
       AllIdle /\ SaveDocument(u, d, ok)
  \/ \E d \in {1}, ok \in BOOLEAN : AllIdle /\ GetDocument(d, ok)
  \/ \E u \in Users, ok \in BOOLEAN : AllIdle /\ GetUserDocuments(u, ok)
  \/ \E d \in {1}, ok \in BOOLEAN : AllIdle /\ DeleteDocument(d, ok)

SpecApi == Init /\ [][NextApi]_vars

\* the cached dataset of the last pass is in the cache again: a backup of
\* localStorage restored, or the same test data seeded for a second run
RestoreCache(u) ==
  /\ AllIdle
  /\ dataset # <<>>
  /\ ~local[u].present
  /\ local' = SetItem(local, u, dataset)
  /\ UNCHANGED <<remote, nextId, now, tasks, scanRemote, scanLocal, docRemote,
                 thrown, origin, live, pending, tracked, returned, subs, result, statsRun, analytics, call, docLocal, docPass, midPass, link,
                 dataset>>

\* SpecRerun: codes saved while the remote store is unreachable, and
\* migrateFromLocalStorage called again and again over them
NextRerun ==
  \/ \E u \in Users, name \in Names :
       AllIdle /\ dataset = <<>> /\ SaveQRCode(u, name, FALSE, FALSE)
  \/ \E t \in SeqTasks, u \in Users : MigrateStart(t, u)
  \/ \E t \in SeqTasks, ok \in BOOLEAN : MigRead(t, ok)
  \/ \E t \in SeqTasks, ok \in BOOLEAN : MigWrite(t, ok)
  \/ \E u \in Users : RestoreCache(u)

SpecRerun == Init /\ [][NextRerun]_vars

\* SpecConc: codes saved while the remote store is unreachable, then list
\* and migration calls in flight together, the remote store reachable
NextConc ==
  \/ \E u \in Users, name \in Names :
       AllIdle /\ SaveQRCode(u, name, FALSE, FALSE)
  \/ \E t \in ConcTasks, u \in Users : ListStart(t, u)
  \/ \E t \in ConcTasks, u \in Users : MigrateStart(t, u)
  \/ \E t \in ConcTasks : ListFetch(t, TRUE)
  \/ \E t \in ConcTasks : MigRead(t, TRUE)
  \/ \E t \in ConcTasks : MigWrite(t, TRUE)
  \/ \E t \in ConcTasks : ListRefetch(t, TRUE)

SpecConc == Init /\ [][NextConc]_vars

\* SpecScan: one code saved remotely, then trackScan called for it again
\* and again; the remote event log takes at most MaxLog events
NextScan ==
  \/ \E u \in Users, name \in Names :
       nextId = 0 /\ SaveQRCode(u, name, TRUE, TRUE)
  \/ \E u \in Users, id \in Ids, okGet, okUpd, okEvent \in BOOLEAN :
       /\ okEvent => Len(scanRemote) < MaxLog
       /\ TrackScan(u, id, okGet, okUpd, FALSE, FALSE, okEvent, MaxScans)

SpecScan == Init /\ [][NextScan]_vars

\* SpecInc: one code saved, then increments of two sessions on it, their
\* read and write steps interleaved in every order; the code takes at most
\* MaxCount increments that returned true
NextInc ==
  \/ Tick
  \/ \E u \in Users, name \in Names :
       nextId = 0 /\ SaveQRCode(u, name, TRUE, TRUE)
  \/ \E t \in ConcTasks, id \in Ids, counter \in Counters :
       returned[id] < MaxCount /\ IncStart(t, id, counter)
  \/ \E t \in ConcTasks, ok \in BOOLEAN : IncRead(t, ok)
  \/ \E t \in ConcTasks, ok \in BOOLEAN : IncWrite(t, ok)

SpecInc == Init /\ [][NextInc]_vars

\* SpecLog: scan events of the code 1 stored in the local log one after
\* the other, each at its own time, MaxScans of them
NextLog == \E u \in Users : StoreEvent(u, 1)

SpecLog == Init /\ [][NextLog]_vars

\* SpecSub: one subscription to the codes or to the documents of a user,
\* while entities of that kind are saved; the listener delivers at most
\* MaxCalls snapshots. The callbacks the two dashboards pass set component
\* state and never throw.
NextSub ==
  \/ Tick
  \/ \E u \in Users, name \in Names :
       /\ nextId < MaxSaved /\ subs["doc"].state = "none"
       /\ \A d \in DocIds : docRemote[d] = NoDocument
       /\ SaveQRCode(u, name, TRUE, TRUE)
  \/ \E u \in Users, d \in DocIds :
       /\ nextId = 0 /\ subs["qr"].state = "none"
       /\ docRemote[d] = NoDocument
       /\ SaveDocument(u, d, TRUE)
  \/ \E kind \in Kinds, u \in Users, ok \in BOOLEAN : Subscribe(kind, u, ok)
  \/ \E kind \in Kinds : Notify(kind, FALSE)
  \/ \E kind \in Kinds : SubError(kind)
  \/ \E kind \in Kinds, ok \in BOOLEAN : FetchSettle(kind, ok, FALSE)
  \/ \E kind \in Kinds : Unsubscribe(kind)

SpecSub == Init /\ [][NextSub]_vars

\* SpecImport: a user saves a code, here or in another browser, and
\* imports one file; the outcomes of the migration are drawn when there
\* is a cache for it to read
NextImport ==
  \/ \E u \in Users, okSet, okGet \in BOOLEAN :
       nextId = 0 /\ result.calls = 0 /\ SaveQRCode(u, "a", okSet, okGet)
  \/ \E draft \in Drafts :
       /\ nextId = 0 /\ result.calls = 0
       /\ draft.isActive /\ draft.tags = "undefined"
       /\ draft.description = "undefined"
       /\ FirestoreSave(draft, TRUE)
  \/ /\ result.calls = 0
     /\ \E u \in Users, json \in Jsons, okFetch, okSet, okGet \in BOOLEAN :
          \E okRead, okWrite, okRefetch \in
               IF local[u].present THEN BOOLEAN ELSE {TRUE} :
            ImportQRCodes(u, json, okFetch, okRead, okWrite, okRefetch, okSet,
                          okGet)

SpecImport == Init /\ [][NextImport]_vars

\* SpecStats: the statistics of one list of at most MaxList codes, by
\* either body of getQRCodeStats
NextStats ==
  \/ /\ statsRun = NoRun
     /\ \E codes \in CodeLists, ok \in BOOLEAN : StatsRemote(codes, ok)
  \/ /\ statsRun = NoRun
     /\ \E codes \in CodeLists : StatsCache(codes)

SpecStats == Init /\ [][NextStats]_vars

\* SpecAnalytics: codes are saved and scanned, no two scans at the same
\* time, and the analytics are computed once
NextAnalytics ==
  \/ analytics.calls = 0 /\ Tick
  \/ \E u \in Users, name \in Names :
       /\ analytics.calls = 0 /\ nextId < MaxSaved
       /\ SaveQRCode(u, name, TRUE, TRUE)
  \/ \E u \in Users, id \in Ids, okEvent \in BOOLEAN :
       /\ analytics.calls = 0
       /\ \A k \in 1..Len(scanRemote) : scanRemote[k].timestamp < now
       /\ \A k \in 1..Len(scanLocal[u]) : scanLocal[u][k].timestamp < now
       /\ TrackScan(u, id, TRUE, TRUE, FALSE, FALSE, okEvent, MaxScans)
  \/ /\ analytics.calls = 0
     /\ \E u \in Users, okEvents, okFetch \in BOOLEAN :
          \E okRead, okWrite, okRefetch \in
               IF local[u].present THEN BOOLEAN ELSE {TRUE} :
            GetScanAnalytics(u, okEvents, okFetch, okRead, okWrite, okRefetch)

SpecAnalytics == Init /\ [][NextAnalytics]_vars

\* SpecRoundTrip: QRCodeFirestore.saveQRCode called with every draft, at
\* any time
NextRoundTrip ==
  \/ Tick
  \/ \E draft \in Drafts, ok \in BOOLEAN :
       nextId < MaxCodes /\ FirestoreSave(draft, ok)

SpecRoundTrip == Init /\ [][NextRoundTrip]_vars

\* ------------------------------------------------------------ properties
\* the raw content of the cache key of user u
Cached(u) == IF local[u].present THEN local[u].codes ELSE <<>>

\* C1: with the remote store unreachable saveQRCode appends exactly one
\* new entity to the user's cache and leaves the remote store alone; the
\* entity it returns has a generated id, createdAt = updatedAt and both
\* counters 0; and with that entity alone in the cache, a getUserQRCodes
\* whose remote read fails returns exactly that one record.
C1_OfflineSave ==
  [][/\ \A u \in Users, name \in Names, okGet \in BOOLEAN :
          SaveQRCode(u, name, FALSE, okGet) =>
            LET e == StSaveQRCode(remote, local, Draft(u, name), nextId + 1,
                                  nextId + 1, now, FALSE, okGet).value
            IN /\ e.id # 0 /\ ~HasId(Cached(u), e.id) /\ ~InRemote(e.id)
               /\ e.name = name /\ e.userId = u
               /\ e.createdAt = e.updatedAt
               /\ e.downloadCount = 0 /\ e.scanCount = 0
               /\ local'[u].present
               /\ local'[u].codes = Append(Cached(u), e)
               /\ remote' = remote /\ thrown' = ""
     /\ \A t \in SeqTasks :
          (ListFetch(t, FALSE) /\ Len(Cached(tasks[t].user)) = 1) =>
            /\ ListFetchReturn(t, FALSE) =
                 [done |-> TRUE, value |-> <<local[tasks[t].user].codes[1]>>]
            /\ thrown' = ""
    ]_vars

\* one offline save into the empty cache, then a list that fell back to it
C1_Witness ==
  /\ nextId = 1 /\ live = {1}
  /\ \A i \in Ids : ~InRemote(i)
  /\ Len(Cached("u1")) = 1
  /\ Cached("u1")[1].createdAt = Cached("u1")[1].updatedAt
  /\ tasks[1].pc = "M1" /\ tasks[1].cont = "bg"

\* C2: whatever the cache holds, a getUserQRCodes whose remote read fails
\* (the first fetch or the re-fetch after a migration) returns exactly the
\* cache's content at that moment, neither throws nor changes a store.
C2_ListFallback ==
  [][\A t \in SeqTasks :
       /\ ListFetch(t, FALSE) =>
            /\ ListFetchReturn(t, FALSE) =
                 [done |-> TRUE, value |-> Cached(tasks[t].user)]
            /\ thrown' = "" /\ local' = local /\ remote' = remote
       /\ ListRefetch(t, FALSE) =>
            /\ ListRefetchReturn(t, FALSE) =
                 [done |-> TRUE, value |-> Cached(tasks[t].user)]
            /\ thrown' = "" /\ local' = local /\ remote' = remote
    ]_vars

\* a list fell back to a cache of two codes
C2_Witness ==
  /\ tasks[1].pc = "M1" /\ tasks[1].cont = "bg"
  /\ Len(tasks[1].codes) = 2
  /\ tasks[1].codes = Cached("u1")

\* C3 as the specification states it: once migrateFromLocalStorage has run
\* over a cached dataset, running it again over the same dataset leaves
\* exactly one remote copy of each of its entities.
C3_Idempotent ==
  \A k \in 1..Len(dataset) :
    Cardinality(RemoteCopies(origin[dataset[k].id])) = 1

\* C4 as the specification states it: when the list and migration calls in
\* flight together have all returned, every saved entity that left the
\* cache has exactly one remote copy.
C4_ExactlyOnce ==
  AllIdle =>
    \A o \in live :
      CacheCopies(o) # {} \/ Cardinality(RemoteCopies(o)) = 1

\* C5 as the specification states it: the entity whose remote write fails
\* during a migration is still in the cache after that step, and no step
\* leaves a saved, undeleted entity out of both stores.
C5_NoLoss ==
  [][/\ \A t \in SeqTasks :
          MigWrite(t, FALSE) =>
            /\ local'[tasks[t].user].present
            /\ HasId(local'[tasks[t].user].codes,
                     tasks[t].codes[tasks[t].i].id)
     /\ \A o \in live' : Present(o)'
    ]_vars

\* C6 as the specification states it: after deleteQRCode returned true the
\* entity is in neither store, an entity held remotely is never afterwards
\* held by the cache alone, and no remote document carries the content of
\* a deleted entity.
C6_DeleteBoth ==
  [][/\ \A u \in Users, id \in Ids, ok \in BOOLEAN :
          (DeleteQRCode(u, id, ok) /\ StDeleteQRCode(remote, local, u, id, ok).value)
            => (~InRemote(id))' /\ (~InCache(u, id))'
     /\ \A u \in Users, id \in Ids :
          InRemote(id) => ~((~InRemote(id))' /\ InCache(u, id)')
     /\ \A i \in Ids : InRemote(i)' => origin'[i] \in live'
    ]_vars

\* the payload and flags of the two codes agree
SameContent(a, b) ==
  /\ a.name = b.name /\ a.isActive = b.isActive
  /\ a.downloadCount = b.downloadCount /\ a.scanCount = b.scanCount

\* C7 as the specification states it: when a migration pass completes, each
\* cached entity whose latest update reached only the cache has a remote
\* copy carrying that update.
C7_UpdateKept ==
  [][\A t \in SeqTasks :
       ((\E ok \in BOOLEAN : MigRead(t, ok) \/ MigWrite(t, ok))
          /\ local[tasks[t].user].present /\ ~local'[tasks[t].user].present)
       => \A id \in tasks[t].pend :
            \E j \in Ids :
              /\ InRemote(j)' /\ origin'[j] = origin[id]
              /\ SameContent(remote'[j], FindCode(tasks[t].codes, id))
    ]_vars

\* C8: after N trackScan calls for one id that each returned true, counted
\* from the scan count 0 of the saved code, the scan count is N; and while
\* no write to the remote event log has succeeded, the local log holds
\* min(N, 1000) events for that id.
C8_ScanCount ==
  \A id \in Ids :
    InRemote(id) =>
      LET ForId(e) == e.qrCodeId = id
          n == tracked[id]
      IN /\ remote[id].scanCount = n
         /\ scanRemote = <<>> =>
              Len(SelectSeq(scanLocal[remote[id].userId], ForId)) =
                IF n < MAX_LOCAL_EVENTS THEN n ELSE MAX_LOCAL_EVENTS

\* one scan more than the local log keeps, every event written locally
C8_Witness ==
  /\ tracked[1] = MAX_LOCAL_EVENTS + 1
  /\ remote[1].scanCount = MAX_LOCAL_EVENTS + 1
  /\ scanRemote = <<>>
  /\ Len(scanLocal["u1"]) = MAX_LOCAL_EVENTS

\* C9 as the specification states it: no public persistence operation, of
\* QR codes or of documents, rejects, whatever remote calls fail.
C9_NeverThrows == thrown = ""

\* C10 as the specification states it: with the remote store unreachable
\* and the entity in the cache, the two increments and the toggle return
\* true and change the cached copy: counter + 1 or isActive negated,
\* updatedAt restamped.
C10_CacheFallback ==
  \A u \in Users, id \in Ids :
    InCache(u, id) =>
      LET old == FindCode(Cached(u), id)
          scan == StIncrementScanCount(remote, local, u, id, now,
                                       FALSE, FALSE, FALSE, FALSE)
          down == StIncrementDownloadCount(remote, local, u, id, now,
                                           FALSE, FALSE, FALSE, FALSE)
          togg == StToggleQRCodeStatus(remote, local, u, id, now,
                                       FALSE, FALSE, FALSE, FALSE)
          After(r) == FindCode(GetUserQRCodesLocal(r.local, u), id)
      IN /\ scan.value
         /\ After(scan).scanCount = old.scanCount + 1
         /\ After(scan).updatedAt = now
         /\ down.value
         /\ After(down).downloadCount = old.downloadCount + 1
         /\ After(down).updatedAt = now
         /\ togg.value
         /\ After(togg).isActive = ~old.isActive
         /\ After(togg).updatedAt = now

\* C11 as the specification states it: with the remote store unreachable
\* and n >= 1 entities in the user's cache, getQRCodeStats returns the
\* statistics of the cached entities: totalCodes = n and the sums of their
\* counters.
C11_StatsFallback ==
  \A u \in Users :
    Len(Cached(u)) >= 1 =>
      LET stats == StGetQRCodeStats(remote, local, u, FALSE) IN
      /\ stats.totalCodes = Len(Cached(u))
      /\ stats.totalDownloads = SumDownloads(Cached(u))
      /\ stats.totalScans = SumScans(Cached(u))
      /\ stats = ComputeStats(Cached(u))

\* C12 as the specification states it: for every draft, with the remote
\* store reachable, getQRCode(id) right after QRCodeFirestore.saveQRCode
\* returns an entity equal field by field to the one save returned, tags
\* and description present or absent as in the draft, and createdAt =
\* updatedAt is not earlier than the time just before the call.
C12_RoundTrip ==
  [][\A draft \in Drafts :
       FirestoreSave(draft, TRUE) =>
         LET saved == FsSaveQRCode(remote, draft, nextId + 1, now, TRUE).value
             got == FsGetQRCode(remote', saved.id, TRUE).value
         IN /\ got = saved
            /\ got.tags = draft.tags /\ got.description = draft.description
            /\ saved.createdAt = saved.updatedAt /\ saved.createdAt >= now
    ]_vars

\* C13 as the specification states it: when a migration pass ends and
\* every remote write of it succeeded, each code that was in the cache only
\* is in the remote store under the id it had in the cache, with the same
\* userId, createdAt, downloadCount and scanCount.
C13_MigratedCopy ==
  [][\A t \in SeqTasks :
       (/\ MigWrite(t, TRUE)
        /\ ~tasks[t].failed
        /\ ~local'[tasks[t].user].present)
       => \A k \in 1..Len(tasks[t].codes) :
            LET code == tasks[t].codes[k] IN
            code.id \notin tasks[t].existing =>
              /\ remote'[code.id] # NoData
              /\ LET copy == FromFirestoreFormat(code.id, remote'[code.id])
                 IN /\ copy.userId = code.userId
                    /\ copy.createdAt = code.createdAt
                    /\ copy.downloadCount = code.downloadCount
                    /\ copy.scanCount = code.scanCount
    ]_vars

\* C14: a failed remote write does not stop a migration pass: the pass
\* does not throw, writes nothing for that record and goes on with the
\* next cached code whose id is not yet remote; and a write that succeeds
\* after an earlier one failed puts its record into the remote store.
C14_PassContinues ==
  [][\A t \in SeqTasks :
       LET tk == tasks[t]
           rest == {k \in (tk.i + 1)..Len(tk.codes) :
                      tk.codes[k].id \notin tk.existing}
       IN /\ MigWrite(t, FALSE) =>
               /\ thrown' = "" /\ remote' = remote
               /\ rest # {} =>
                    /\ tasks'[t].pc = "M2"
                    /\ tasks'[t].i \in rest
                    /\ \A k \in rest : tasks'[t].i <= k
          /\ (MigWrite(t, TRUE) /\ tk.failed) =>
               \E j \in Ids :
                 /\ ~InRemote(j) /\ InRemote(j)'
                 /\ remote'[j].name = tk.codes[tk.i].name
                 /\ remote'[j].userId = tk.codes[tk.i].userId
    ]_vars

\* the write of the first cached code failed and the pass is at the second
C14_Witness ==
  /\ tasks[1].pc = "M2" /\ tasks[1].failed /\ tasks[1].i = 2
  /\ \A i \in Ids : ~InRemote(i)

C16_CacheMirrors ==
  [][\A u \in Users, id \in Ids :
       /\ ( /\ InRemote(id)
            /\ \/ ToggleQRCodeStatus(u, id, TRUE, TRUE, TRUE, TRUE)
               \/ IncrementDownloadCount(u, id, TRUE, TRUE, TRUE, TRUE)
               \/ IncrementScanCount(u, id, TRUE, TRUE, TRUE, TRUE)
            /\ HasId(GetUserQRCodesLocal(local', u), id) )
          => LET cached == FindCode(GetUserQRCodesLocal(local', u), id)
                 stored == FromFirestoreFormat(id, remote'[id])
             IN /\ cached.isActive = stored.isActive
                /\ cached.downloadCount = stored.downloadCount
                /\ cached.scanCount = stored.scanCount
                /\ cached.updatedAt = stored.updatedAt
       /\ \A name \in Names :
            SaveQRCode(u, name, TRUE, TRUE)
            => HasId(GetUserQRCodesLocal(local', u), nextId')
    ]_vars

\* the entity carries the field values of the remote document of its id
RemoteValues(code) ==
  LET data == remote[code.id] IN
  /\ code.userId = data.userId /\ code.name = data.name
  /\ code.isActive = data.isActive
  /\ code.downloadCount = data.downloadCount
  /\ code.scanCount = data.scanCount
  /\ code.createdAt = ConvertTimestamp(data.createdAt)
  /\ code.updatedAt = ConvertTimestamp(data.updatedAt)

\* the list holds every remote entity of the user with its remote values
RemoteList(codes, u) ==
  \A id \in Ids :
    (InRemote(id) /\ remote[id].userId = u)
    => \E k \in 1..Len(codes) : codes[k].id = id /\ RemoteValues(codes[k])

\* the cache holds a copy of a remote entity that differs from it
StaleCopy(u) ==
  \E id \in Ids :
    /\ InRemote(id) /\ InCache(u, id)
    /\ ~RemoteValues(FindCode(GetUserQRCodesLocal(local, u), id))

\* C17: when the remote read succeeds, getQRCode and getUserQRCodes return
\* the remote store's field values for every id that exists remotely, never
\* those of a differing cached copy.
C17_RemoteWins ==
  /\ \A u \in Users, id \in Ids :
       InRemote(id) =>
         LET code == StGetQRCode(remote, local, u, id, TRUE) IN
         code.id = id /\ RemoteValues(code)
  /\ \A t \in SeqTasks :
       LET tk == tasks[t] IN
       /\ tk.pc = "G1" =>
            LET r == ListFetchReturn(t, TRUE) IN RemoteList(r.value, tk.user)
       /\ (tk.pc \in {"M1", "M2"} /\ tk.cont = "return")
            => RemoteList(tk.fs, tk.user)
       /\ tk.pc = "G3" =>
            RemoteList(ListRefetchReturn(t, TRUE).value, tk.user)

\* a list call is in flight while the cache holds a stale copy
C17_Witness ==
  /\ tasks[1].pc = "G1" /\ StaleCopy(tasks[1].user)

\* C18: an incrementScanCount or incrementDownloadCount call that returns
\* true raises that counter of the stored entity by exactly 1, restamps
\* updatedAt and lastAccessed (and lastScanned for a scan) and leaves every
\* other field and every other entity as it was; a call that returns false,
\* as every call on an id that does not exist does, changes nothing.
C18_IncrementEffect ==
  /\ [](\A id \in Ids, okGet, okUpd \in BOOLEAN :
          LET s == FsIncrementScanCount(remote, id, now, okGet, okUpd)
              d == FsIncrementDownloadCount(remote, id, now, okGet, okUpd)
          IN /\ ~InRemote(id) => ~s.value /\ ~d.value
             /\ ~s.value => s.remote = remote
             /\ ~d.value => d.remote = remote
             /\ s.value =>
                  s.remote = [remote EXCEPT
                                ![id].scanCount = @ + 1,
                                ![id].updatedAt = FromDate(now),
                                ![id].lastAccessed = FromDate(now),
                                ![id].lastScanned = FromDate(now)]
             /\ d.value =>
                  d.remote = [remote EXCEPT
                                ![id].downloadCount = @ + 1,
                                ![id].updatedAt = FromDate(now),
                                ![id].lastAccessed = FromDate(now)])
  /\ [][\A u \in Users, id \in Ids :
          /\ (IncrementScanCount(u, id, TRUE, TRUE, TRUE, TRUE) /\ InRemote(id))
               => /\ remote'[id].scanCount = remote[id].scanCount + 1
                  /\ ConvertTimestamp(remote'[id].updatedAt) = now
                  /\ ConvertTimestamp(remote'[id].lastAccessed) = now
                  /\ ConvertTimestamp(remote'[id].lastScanned) = now
                  /\ \A f \in DOMAIN remote[id] \ {"scanCount", "updatedAt",
                                                   "lastAccessed", "lastScanned"} :
                       remote'[id][f] = remote[id][f]
          /\ (IncrementDownloadCount(u, id, TRUE, TRUE, TRUE, TRUE) /\ InRemote(id))
               => /\ remote'[id].downloadCount = remote[id].downloadCount + 1
                  /\ ConvertTimestamp(remote'[id].updatedAt) = now
                  /\ ConvertTimestamp(remote'[id].lastAccessed) = now
                  /\ \A f \in DOMAIN remote[id] \ {"downloadCount", "updatedAt",
                                                   "lastAccessed"} :
                       remote'[id][f] = remote[id][f]
       ]_vars

\* a code saved at time 1 was scanned once at time 2
C18_Witness ==
  /\ InRemote(1) /\ remote[1].scanCount = 1 /\ remote[1].downloadCount = 0
  /\ remote[1].createdAt = FromDate(1)
  /\ remote[1].updatedAt = FromDate(2) /\ remote[1].lastScanned = FromDate(2)

\* C19: an increment whose write succeeds returns true and stores the count
\* it read plus one, whatever another increment wrote since it read: two
\* increments that both read before either writes both return true while
\* the stored counter grows by only 1.
C19_LostUpdate ==
  [][\A t \in ConcTasks :
       IncWrite(t, TRUE)
       => LET tk == tasks[t] IN
          /\ returned'[tk.i] = returned[tk.i] + 1
          /\ remote'[tk.i][tk.cont] = tk.codes[1][tk.cont] + 1
          /\ (returned[tk.i] > 0 /\ remote[tk.i][tk.cont] = tk.codes[1][tk.cont] + 1)
               => remote'[tk.i][tk.cont] = remote[tk.i][tk.cont]
    ]_vars

\* two scan increments returned true and the stored scan count is 1
C19_Witness ==
  /\ AllIdle /\ InRemote(1)
  /\ returned[1] = 2 /\ remote[1].scanCount = 1 /\ remote[1].downloadCount = 0

\* C20: the stored downloadCount and scanCount of an entity are never
\* negative and never decrease, in any interleaving of the calls of one or
\* more sessions.
C20_Monotonic ==
  /\ [](\A id \in Ids :
          InRemote(id) => remote[id].downloadCount >= 0 /\ remote[id].scanCount >= 0)
  /\ [][\A id \in Ids :
          (InRemote(id) /\ InRemote(id)')
          => /\ remote'[id].downloadCount >= remote[id].downloadCount
             /\ remote'[id].scanCount >= remote[id].scanCount
       ]_vars

\* C21: trackScan records a scan event only after the scan-count increment
\* succeeded: when the increment returns false it returns false and appends
\* nothing to either log; when it returns true it appends exactly one event,
\* to the remote log or, when that write fails, to the local log, and
\* returns true.
C21_EventAfterIncrement ==
  /\ [](\A u \in Users, id \in Ids, okGet, okUpd, okEvent \in BOOLEAN :
          LET inc == StIncrementScanCount(remote, local, u, id, now,
                                          okGet, okUpd, FALSE, FALSE)
              r == StTrackScan(remote, local, scanRemote, scanLocal[u], u, id,
                               now, okGet, okUpd, FALSE, FALSE, okEvent)
              event == [qrCodeId |-> id, userId |-> u, timestamp |-> now]
              n == Len(scanLocal[u])
          IN /\ r.value = inc.value
             /\ ~inc.value =>
                  r.scanRemote = scanRemote /\ r.scanLocal = scanLocal[u]
             /\ (inc.value /\ okEvent) =>
                  r.scanRemote = Append(scanRemote, event)
                  /\ r.scanLocal = scanLocal[u]
             /\ (inc.value /\ ~okEvent) =>
                  /\ r.scanRemote = scanRemote
                  /\ r.scanLocal[Len(r.scanLocal)] = event
                  /\ IF n < MAX_LOCAL_EVENTS
                       THEN r.scanLocal = Append(scanLocal[u], event)
                     ELSE SubSeq(r.scanLocal, 1, n - 1) = Tail(scanLocal[u]))
  /\ [][\A u \in Users, id \in Ids, okGet, okUpd, okEvent \in BOOLEAN :
          TrackScan(u, id, okGet, okUpd, FALSE, FALSE, okEvent, MaxScans)
          => IF remote'[id].scanCount = remote[id].scanCount
               THEN scanRemote' = scanRemote /\ scanLocal' = scanLocal
                    /\ tracked' = tracked
             ELSE /\ tracked'[id] = tracked[id] + 1
                  /\ \/ Len(scanRemote') = Len(scanRemote) + 1
                        /\ scanLocal' = scanLocal
                     \/ /\ scanRemote' = scanRemote
                        /\ Len(scanLocal'[u]) =
                             IF Len(scanLocal[u]) < MAX_LOCAL_EVENTS
                               THEN Len(scanLocal[u]) + 1
                             ELSE MAX_LOCAL_EVENTS
                        /\ scanLocal'[u][Len(scanLocal'[u])] =
                             [qrCodeId |-> id, userId |-> u, timestamp |-> now]
       ]_vars

\* two scans were tracked: one event went to the remote log, one to the local
C21_Witness ==
  /\ tracked[1] = 2 /\ remote[1].scanCount = 2
  /\ Len(scanRemote) = 1 /\ Len(scanLocal["u1"]) = 1

\* C22: the local scan-event log never holds more than 1000 events;
\* appending to a full log drops the oldest event and keeps the remaining
\* events, followed by the new one, in arrival order.
C22_RingBuffer ==
  /\ [](\A u \in Users :
          /\ Len(scanLocal[u]) <= MAX_LOCAL_EVENTS
          /\ \A k \in 1..(Len(scanLocal[u]) - 1) :
               scanLocal[u][k].timestamp < scanLocal[u][k + 1].timestamp)
  /\ [][\A u \in Users, id \in Ids :
          StoreEvent(u, id)
          => LET event == [qrCodeId |-> id, userId |-> u, timestamp |-> now] IN
             IF Len(scanLocal[u]) = MAX_LOCAL_EVENTS
               THEN scanLocal'[u] = Append(Tail(scanLocal[u]), event)
             ELSE scanLocal'[u] = Append(scanLocal[u], event)
       ]_vars

\* one event more than the log keeps was stored: the first one is gone
C22_Witness ==
  /\ now = MAX_LOCAL_EVENTS + 2
  /\ Len(scanLocal["u1"]) = MAX_LOCAL_EVENTS
  /\ scanLocal["u1"][1].timestamp = 2
  /\ scanLocal["u1"][MAX_LOCAL_EVENTS].timestamp = MAX_LOCAL_EVENTS + 1

\* the time the list of a subscription is ordered by
Stamp(kind, e) == IF kind = "qr" THEN e.updatedAt ELSE e.uploadedAt

\* the ids of the entities of user u the remote store holds
StoredIds(kind, u) ==
  IF kind = "qr" THEN {id \in Ids : InRemote(id) /\ remote[id].userId = u}
  ELSE {d \in DocIds : docRemote[d] # NoDocument /\ docRemote[d].userId = u}

\* list holds each stored entity of the user once, newest first
FullSorted(kind, u, list) ==
  /\ Len(list) = Cardinality(StoredIds(kind, u))
  /\ {list[k].id : k \in 1..Len(list)} = StoredIds(kind, u)
  /\ \A i, j \in 1..Len(list) :
       i < j => Stamp(kind, list[i]) >= Stamp(kind, list[j])

\* C23: every change notification results in one callback invocation
\* carrying the user's full entity list sorted newest first; every
\* subscription error, at setup or later, results in exactly one callback
\* invocation, made when the one-shot fetch settles, carrying its result or
\* the empty list when it failed; no error reaches the subscriber.
C23_Delivery ==
  /\ [](\A kind \in Kinds :
          /\ subs[kind].calls + subs[kind].fetches
               = subs[kind].notes + subs[kind].errors
          /\ thrown = "")
  /\ [][\A kind \in Kinds :
          LET sub == subs[kind] IN
          /\ Notify(kind, FALSE)
               => /\ subs'[kind].calls = sub.calls + 1
                  /\ subs'[kind].fetches = sub.fetches
                  /\ FullSorted(kind, sub.user, subs'[kind].delivered)
          /\ (SubError(kind) \/ \E u \in Users : Subscribe(kind, u, FALSE))
               => /\ subs'[kind].calls = sub.calls
                  /\ subs'[kind].fetches = sub.fetches + 1
          /\ \A ok \in BOOLEAN :
               FetchSettle(kind, ok, FALSE)
               => /\ subs'[kind].calls = sub.calls + 1
                  /\ subs'[kind].fetches = sub.fetches - 1
                  /\ IF ok THEN FullSorted(kind, sub.user, subs'[kind].delivered)
                     ELSE subs'[kind].delivered = <<>>
       ]_vars

\* the listener delivered two codes, the one saved later first, then ended
\* with an error whose one-shot fetch has delivered them again
C23_Witness ==
  LET sub == subs["qr"] IN
  /\ sub.state = "ended" /\ sub.errors = 1 /\ sub.fetches = 0
  /\ sub.notes >= 1 /\ sub.calls = sub.notes + 1
  /\ Len(sub.delivered) = 2
  /\ sub.delivered[1].id = 2 /\ sub.delivered[1].updatedAt > sub.delivered[2].updatedAt

\* C24: once unsubscribe has been called the subscriber's callback is never
\* invoked again, also when a fallback fetch started by an earlier error
\* is still in flight at that moment.
C24_NoCallAfterUnsubscribe ==
  [][\A kind \in Kinds :
       subs[kind].state = "closed" => subs'[kind].calls = subs[kind].calls
    ]_vars

\* the item has every field importQRCodes requires
Complete(item) ==
  ~item.null /\ item.name # "" /\ item.type # "" /\ item.data # ""
  /\ item.config # ""

\* item k of the last import repeats the triple of an entity the user had
\* or of an earlier item the call saved
Duplicate(k) ==
  LET items == result.json.items IN
  \/ Triple(items[k]) \in result.entities
  \/ \E j \in 1..(k - 1) : /\ result.outcomes[j] = "saved"
                            /\ Triple(items[j]) = Triple(items[k])

\* C25: importQRCodes skips every item whose (name, type, data) triple is
\* that of an entity of the user or of an earlier saved item of the batch,
\* with one 'already exists' error and nothing saved for it; a batch of one
\* duplicate and one novel item gives success 1 with exactly one error.
C25_SkipsDuplicates ==
  result.calls > 0 /\ result.json.kind = "array" =>
    LET items == result.json.items
        n == Len(items)
    IN /\ \A k \in 1..n :
            Complete(items[k]) /\ Duplicate(k) => result.outcomes[k] = "exists"
       /\ n = 2 /\ Complete(items[1]) /\ Complete(items[2])
            /\ Duplicate(1) # Duplicate(2)
            => result.value.success = 1 /\ Len(result.value.errors) = 1

\* the triples of the items of the last import whose outcome is "saved"
RECURSIVE SavedTriples(_)
SavedTriples(k) ==
  IF k = 0 THEN <<>>
  ELSE IF result.outcomes[k] = "saved"
    THEN Append(SavedTriples(k - 1), Triple(result.json.items[k]))
  ELSE SavedTriples(k - 1)

\* C26: importQRCodes processes every item: an item without name, type,
\* data or config adds one error and is not saved, the items after it are
\* still processed, and success plus the number of errors is the number of
\* items; text that is not JSON gives success 0 with one error and saves
\* nothing.
C26_EveryItemProcessed ==
  /\ [](result.calls > 0 /\ result.json.kind = "array" =>
         LET items == result.json.items
             n == Len(items)
         IN /\ Len(result.outcomes) = n
            /\ result.value.success + Len(result.value.errors) = n
            /\ result.value.errors =
                 SelectSeq(result.outcomes, LAMBDA o : o # "saved")
            /\ \A k \in 1..n :
                 ~Complete(items[k]) => result.outcomes[k] \in {"invalid", "error"}
            /\ Len(result.saved) = result.value.success
            /\ [k \in 1..Len(result.saved) |-> Triple(result.saved[k])]
                 = SavedTriples(n))
  /\ [](result.calls > 0 /\ result.json.kind = "invalid" =>
         /\ result.value = [success |-> 0, errors |-> <<"Invalid JSON format">>]
         /\ result.saved = <<>>)
  /\ [][result'.calls > result.calls /\ result'.json.kind = "invalid" =>
          remote' = remote /\ local' = local /\ nextId' = nextId]_vars

\* a batch whose first item lacks its name and whose second item is saved
C26_Witness ==
  /\ result.calls = 1 /\ result.json.kind = "array"
  /\ Len(result.json.items) = 2
  /\ result.json.items[1].name = "" /\ ~result.json.items[1].null
  /\ result.outcomes = <<"invalid", "saved">>
  /\ result.value = [success |-> 1, errors |-> <<"invalid">>]
  /\ Triple(result.saved[1]) = <<"a", "url", "d">>
  /\ \/ \E i \in Ids : remote[i] # NoData /\ remote[i].id = result.saved[1].id
     \/ HasId(GetUserQRCodesLocal(local, "u1"), result.saved[1].id)

\* the sum of a counter over the first k codes of a list
RECURSIVE TotalOf(_, _, _)
TotalOf(codes, counter, k) ==
  IF k = 0 THEN 0 ELSE codes[k][counter] + TotalOf(codes, counter, k - 1)

\* C27: getQRCodeStats for a user with no entities returns zeros,
\* mostUsedType 'url', mostScannedCode null and no recentCodes, and does
\* not throw; for a non-empty list activeCodes + inactiveCodes = totalCodes
\* and the two totals are the sums of the entities' counters.
C27_StatsTotals ==
  statsRun # NoRun =>
    LET codes == statsRun.received
        v == statsRun.value
    IN /\ thrown = ""
       /\ statsRun.codes = <<>> =>
            v = [totalCodes |-> 0, activeCodes |-> 0, inactiveCodes |-> 0,
                 totalDownloads |-> 0, totalScans |-> 0, mostUsedType |-> "url",
                 mostScannedCode |-> NoDoc, recentCodes |-> <<>>]
       /\ codes # <<>> =>
            /\ v.totalCodes = Len(codes)
            /\ v.activeCodes + v.inactiveCodes = v.totalCodes
            /\ v.totalDownloads = TotalOf(codes, "downloadCount", Len(codes))
            /\ v.totalScans = TotalOf(codes, "scanCount", Len(codes))

\* the statistics of a list of active and inactive codes with downloads
\* and scans
C27_Witness ==
  /\ statsRun.branch = "remote" /\ Len(statsRun.received) = 3
  /\ statsRun.value.activeCodes = 2 /\ statsRun.value.inactiveCodes = 1
  /\ statsRun.value.totalDownloads = 3 /\ statsRun.value.totalScans = 3

\* the places of a list whose entity has the given type
PlacesOf(codes, type) == {k \in 1..Len(codes) : codes[k].type = type}

\* the first place of a list whose entity has the given type
FirstPlace(codes, type) ==
  CHOOSE k \in PlacesOf(codes, type) : \A j \in PlacesOf(codes, type) : k <= j

\* C28: for a non-empty list mostUsedType is a type of maximal frequency,
\* among several such types the one first encountered in received order;
\* 2 entities of type 'url' and 3 of type 'email' give 'email'.
C28_MostUsedType ==
  statsRun # NoRun /\ statsRun.received # <<>> =>
    LET codes == statsRun.received
        type == statsRun.value.mostUsedType
        maximal(t) == /\ PlacesOf(codes, t) # {}
                      /\ \A o \in Types : Cardinality(PlacesOf(codes, o))
                                            <= Cardinality(PlacesOf(codes, t))
    IN /\ maximal(type)
       /\ \A t \in Types : maximal(t) => FirstPlace(codes, type) <= FirstPlace(codes, t)
       /\ Cardinality(PlacesOf(codes, "url")) = 2
            /\ Cardinality(PlacesOf(codes, "email")) = 3 => type = "email"

\* the places of a list whose entity has the greatest scanCount
MostScannedPlaces(codes) ==
  {k \in 1..Len(codes) : \A j \in 1..Len(codes) : codes[j].scanCount <= codes[k].scanCount}

\* C29: for a non-empty list mostScannedCode is the first entity in
\* received order whose scanCount is maximal; it is null only for the
\* empty list.
C29_MostScanned ==
  statsRun # NoRun /\ statsRun.received # <<>> =>
    LET codes == statsRun.received
        first == CHOOSE k \in MostScannedPlaces(codes) :
                   \A j \in MostScannedPlaces(codes) : k <= j
    IN /\ statsRun.value.mostScannedCode # NoDoc
       /\ statsRun.value.mostScannedCode = codes[first]

\* C29, amended: mostScannedCode is null when no entity of the list has a
\* scanCount above 0, the empty list included; otherwise it is the first
\* entity in received order whose scanCount is maximal.
C29_MostScannedAboveZero ==
  statsRun # NoRun =>
    LET codes == statsRun.received
        first == CHOOSE k \in MostScannedPlaces(codes) :
                   \A j \in MostScannedPlaces(codes) : k <= j
    IN IF \E k \in 1..Len(codes) : codes[k].scanCount > 0
         THEN statsRun.value.mostScannedCode = codes[first]
       ELSE statsRun.value.mostScannedCode = NoDoc

\* a cached list whose second and third entity share the greatest
\* scanCount: the second is the most scanned one
C29_Witness ==
  /\ statsRun.branch = "cache" /\ Len(statsRun.received) = 3
  /\ statsRun.received[1].scanCount = 0
  /\ statsRun.received[2].scanCount = 1
  /\ statsRun.received[3].scanCount = 1
  /\ statsRun.value.mostScannedCode = statsRun.received[2]

\* the place of an entity in the list the statistics were computed from
PlaceOf(e) == CHOOSE k \in 1..Len(statsRun.received) : statsRun.received[k].id = e.id

\* entity a comes before entity b in a stable sort, newest first
Before(a, b) ==
  \/ a.updatedAt > b.updatedAt
  \/ a.updatedAt = b.updatedAt /\ PlaceOf(a) < PlaceOf(b)

\* C30: recentCodes holds min(5, n) entities of the n given, the ones with
\* the greatest updatedAt, in descending updatedAt order, entities with
\* equal updatedAt keeping their received order.
C30_RecentCodes ==
  statsRun # NoRun /\ statsRun.received # <<>> =>
    LET codes == statsRun.received
        recent == statsRun.value.recentCodes
        n == Len(codes)
        held == {recent[k] : k \in 1..Len(recent)}
    IN /\ Len(recent) = IF n < 5 THEN n ELSE 5
       /\ held \subseteq {codes[k] : k \in 1..n}
       /\ \A i, j \in 1..Len(recent) : i < j => Before(recent[i], recent[j])
       /\ \A k \in 1..n : codes[k] \notin held =>
            \A e \in held : Before(e, codes[k])

\* a cached list of six entities, the oldest one first: the five others
\* are the recent ones, the newer ones ahead of the older ones
C30_Witness ==
  /\ statsRun.branch = "cache" /\ Len(statsRun.received) = 6
  /\ [k \in 1..6 |-> statsRun.received[k].updatedAt] = <<1, 2, 1, 2, 1, 2>>
  /\ [k \in 1..5 |-> statsRun.value.recentCodes[k].id] = <<2, 4, 6, 1, 3>>

\* the events of the log the last getScanAnalytics call read
SourceEvents ==
  IF analytics.source = "remote"
    THEN SelectSeq(scanRemote, LAMBDA e : e.userId = analytics.user)
  ELSE scanLocal[analytics.user]

\* C31: getScanAnalytics returns totalScans = the number of events,
\* uniqueQRCodes = the number of distinct qrCodeIds among them, and
\* mostScanned = at most 5 entries ordered by event count descending, each
\* with the timestamp of the latest event of its code, for events from the
\* remote log as for events from the local log.
C31_Analytics ==
  analytics.calls > 0 =>
    LET events == SourceEvents
        v == analytics.value
        of(id) == {k \in 1..Len(events) : events[k].qrCodeId = id}
    IN /\ v.totalScans = Len(events)
       /\ v.uniqueQRCodes = Cardinality({events[k].qrCodeId : k \in 1..Len(events)})
       /\ Len(v.mostScanned) <= 5
       /\ \A i, j \in 1..Len(v.mostScanned) :
            i < j => v.mostScanned[i].scanCount >= v.mostScanned[j].scanCount
       /\ \A i \in 1..Len(v.mostScanned) :
            LET entry == v.mostScanned[i] IN
            /\ entry.scanCount = Cardinality(of(entry.qrCode))
            /\ \A k \in of(entry.qrCode) : events[k].timestamp <= entry.lastScan

\* ---------------------------------------------------- two users, one store
\* the partial updates a caller may pass: the fields of the entity, the
\* owner and the update stamp among them, the id that names it apart
OwnerPartials ==
  [name : Names] \cup [userId : AllUsers]
    \cup [isActive : {FALSE}, updatedAt : {1}]

\* SpecOwners: both users save codes, at any time, user u1 also to the
\* cache alone, and user u1 lists them; then one facade call of user
\* u1 (get, update, delete, toggle, increment), by any id, is observed
NextOwners ==
  \/ call.op = "" /\ Tick
  \/ /\ call.op = "" /\ AllIdle /\ nextId < MaxIds
     /\ \E u \in AllUsers, okSet \in BOOLEAN :
          /\ u \notin Users => okSet
          /\ SaveQRCode(u, "a", okSet, TRUE)
  \/ call.op = "" /\ \E t \in SeqTasks, u \in Users : ListStart(t, u)
  \/ call.op = "" /\ \E t \in SeqTasks, ok \in BOOLEAN : ListFetch(t, ok)
  \/ call.op = "" /\ \E t \in SeqTasks, ok \in BOOLEAN : MigRead(t, ok)
  \/ call.op = "" /\ \E t \in SeqTasks, ok \in BOOLEAN : MigWrite(t, ok)
  \/ call.op = "" /\ \E t \in SeqTasks, ok \in BOOLEAN : ListRefetch(t, ok)
  \/ /\ call.op = "" /\ AllIdle
     /\ \E u \in Users, id \in Ids, ok \in BOOLEAN : GetQRCode(u, id, ok)
  \/ /\ call.op = "" /\ AllIdle
     /\ \E u \in Users, id \in Ids, updates \in OwnerPartials, ok \in BOOLEAN :
          UpdateQRCode(u, id, updates, ok)
  \/ /\ call.op = "" /\ AllIdle
     /\ \E u \in Users, id \in Ids, ok \in BOOLEAN : DeleteQRCode(u, id, ok)
  \/ /\ call.op = "" /\ AllIdle
     /\ \E u \in Users, id \in Ids, okGet, okUpd \in BOOLEAN :
          ToggleQRCodeStatus(u, id, okGet, okUpd, TRUE, TRUE)
  \/ /\ call.op = "" /\ AllIdle
     /\ \E u \in Users, id \in Ids, okGet, okUpd \in BOOLEAN :
          IncrementScanCount(u, id, okGet, okUpd, TRUE, TRUE)

SpecOwners == InitObserved /\ [][NextOwners]_vars

\* the ids of the remote documents whose userId is u
OwnedIds(u) == {i \in Ids : remote[i] # NoData /\ remote[i].userId = u}

\* C32: QRCodeFirestore.getUserQRCodes(userId) returns exactly the remote
\* entities whose userId is the argument, each of them once, the one updated
\* last first
C32_UserCodes ==
  \A u \in AllUsers :
    LET codes == FsGetUserQRCodes(remote, u, TRUE).value IN
    /\ IdsOf(codes) = OwnedIds(u)
    /\ Len(codes) = Cardinality(OwnedIds(u))
    /\ \A k \in 1..Len(codes) :
         codes[k] = FromFirestoreFormat(codes[k].id, remote[codes[k].id])
    /\ \A j, k \in 1..Len(codes) :
         j < k => codes[j].updatedAt >= codes[k].updatedAt

\* both users own remote entities, and the list of one of them starts with
\* an entity that was saved after the one it ends with
C32_Witness ==
  /\ \A u \in AllUsers : OwnedIds(u) # {}
  /\ \E u \in AllUsers :
       LET codes == FsGetUserQRCodes(remote, u, TRUE).value IN
       /\ Len(codes) = 2
       /\ codes[1].id > codes[2].id
       /\ codes[1].updatedAt > codes[2].updatedAt

\* new is old with the fields named in updates set, updatedAt set to time t
\* and every other field as it was
Applied(old, new, updates, t) ==
  /\ DOMAIN new = DOMAIN old
  /\ \A f \in DOMAIN old :
       new[f] = IF f = "updatedAt" THEN t
                ELSE IF f \in DOMAIN updates THEN updates[f]
                ELSE old[f]

\* C33: an updateQRCode call that applies sets the fields named in the
\* partial, leaves every other field of the entity as it was and sets
\* updatedAt to the time of the call, also when the partial names an
\* updatedAt, on the remote document or, when the remote write failed, on the
\* cached copy; a call for an id that is in neither store returns false and
\* changes neither store
C33_Update ==
  call.op = "update" =>
    LET id == call.id
        before == GetUserQRCodesLocal(call.local, call.user)
        after == GetUserQRCodesLocal(local, call.user)
    IN /\ call.value =>
            \/ /\ call.remote[id] # NoData
               /\ Applied(FromFirestoreFormat(id, call.remote[id]),
                          FromFirestoreFormat(id, remote[id]), call.updates, now)
               /\ \A i \in Ids \ {id} : remote[i] = call.remote[i]
               /\ local = call.local
            \/ /\ HasId(before, id)
               /\ Len(after) = Len(before)
               /\ \E k \in 1..Len(before) :
                    /\ before[k].id = id
                    /\ Applied(before[k], after[k], call.updates, now)
                    /\ \A j \in 1..Len(before) : j # k => after[j] = before[j]
               /\ remote = call.remote
       /\ call.remote[id] = NoData /\ ~HasId(before, id) =>
            ~call.value /\ remote = call.remote /\ local = call.local

\* an update whose partial named a stale updatedAt reached the remote
\* document, which now carries the time of the call
C33_Witness ==
  /\ call.op = "update" /\ call.value
  /\ "updatedAt" \in DOMAIN call.updates
  /\ remote # call.remote
  /\ call.updates.updatedAt < now
  /\ FromFirestoreFormat(call.id, remote[call.id]).updatedAt = now

\* the userIds the two stores hold for id i
OwnersOf(rem, loc, i) ==
  {o \in AllUsers :
     \/ rem[i] # NoData /\ rem[i].userId = o
     \/ \E u \in AllUsers : \E k \in 1..Len(loc[u].codes) :
          loc[u].codes[k].id = i /\ loc[u].codes[k].userId = o}

\* C34: no step (an update with any partial, a toggle, an increment, a
\* delete, a save, a step of a migration pass) changes the userId stored
\* for an id that the stores already hold
C34_OwnerKept ==
  [][\A i \in Ids :
       OwnersOf(remote, local, i) # {} /\ OwnersOf(remote', local', i) # {}
         => OwnersOf(remote', local', i) = OwnersOf(remote, local, i)]_vars

\* ------------------------------------- DocumentStorage and its migration
\* a saveDocument that writes every document to the same place
DsSaveDocumentShared(docs, u, document, ok) ==
  IF ok THEN [threw |-> FALSE,
              remote |-> [docs EXCEPT ![1] =
                            [id |-> document.id, userId |-> u,
                             uploadedAt |-> document.uploadedAt]]]
  ELSE [threw |-> TRUE, remote |-> docs]

\* saveDocument: setDoc(doc(db, 'documents', document.id), { ...document,
\* userId }), the rejection of setDoc thrown on
DsSaveDocument(docs, u, document, ok) ==
  IF ok THEN [threw |-> FALSE,
              remote |-> [docs EXCEPT ![document.id] =
                            [id |-> document.id, userId |-> u,
                             uploadedAt |-> document.uploadedAt]]]
  ELSE [threw |-> TRUE, remote |-> docs]

\* for (const document of documents): saveDocument for every document whose
\* id the remote list read before the loop does not hold; okIds are the ids
\* whose setDoc resolves
RECURSIVE DsMigrateAll(_, _, _, _, _)
DsMigrateAll(documents, existingIds, docs, u, okIds) ==
  IF documents = <<>> THEN docs
  ELSE DsMigrateAll(Tail(documents), existingIds,
         IF Head(documents).id \in existingIds THEN docs
         ELSE DsSaveDocument(docs, u, Head(documents),
                             Head(documents).id \in okIds).remote,
         u, okIds)

\* migrateFromLocalStorage: nothing without a cache key; a rejected
\* getUserDocuments ends the pass with the key left in place; else the loop
\* and removeItem
DsMigrateFromLocalStorage(docs, loc, u, okRead, okIds) ==
  LET existingDocs == FsGetUserDocuments(docs, u, okRead) IN
  IF ~loc[u].present \/ existingDocs.threw
    THEN [remote |-> docs, local |-> loc, existing |-> {}]
  ELSE [remote |-> DsMigrateAll(loc[u].documents, IdsOf(existingDocs.value),
                                docs, u, okIds),
        local |-> [loc EXCEPT ![u] = NoDocuments],
        existing |-> IdsOf(existingDocs.value)]

\* DocumentDashboard.handleUploadSuccess: the uploaded document joins the
\* list the component holds, and the list is written to the cache key; the
\* component read the list from the key, or from the dataset of before when
\* a pass removed the key
HandleUploadSuccess(u, d) ==
  LET documents == IF docLocal[u].present THEN docLocal[u].documents
                   ELSE docPass.documents
      document == [id |-> d, uploadedAt |-> now]
  IN /\ Len(documents) < MaxItems
     /\ docLocal' = [docLocal EXCEPT ![u] =
                       [present |-> TRUE,
                        documents |-> Append(documents, document)]]
     /\ UNCHANGED <<remote, local, nextId, now, tasks, scanRemote, scanLocal,
                    docRemote, thrown, origin, live, pending, tracked,
                    returned, subs, result, statsRun, analytics, call,
                    docPass, midPass, link, dataset>>

\* the cached documents of the last pass are in the cache again
RestoreDocuments(u) ==
  /\ docPass.calls > 0
  /\ docPass.user = u
  /\ ~docLocal[u].present
  /\ docPass.documents # <<>>
  /\ docLocal' = [docLocal EXCEPT ![u] =
                    [present |-> TRUE, documents |-> docPass.documents]]
  /\ UNCHANGED <<remote, local, nextId, now, tasks, scanRemote, scanLocal,
                 docRemote, thrown, origin, live, pending, tracked, returned,
                 subs, result, statsRun, analytics, call, docPass, midPass, link, dataset>>

\* one call of DocumentStorage.migrateFromLocalStorage(u)
MigrateDocuments(u, okRead, okIds) ==
  /\ docPass.calls < MaxCalls
  /\ \E r \in {DsMigrateFromLocalStorage(docRemote, docLocal, u, okRead, okIds)} :
       /\ docRemote' = r.remote
       /\ docLocal' = r.local
       /\ docPass' = [calls |-> docPass.calls + 1, user |-> u,
                      documents |-> docLocal[u].documents,
                      existing |-> r.existing,
                      written |-> IF docLocal[u].present /\ okRead
                                    THEN okIds ELSE {}]
  /\ thrown' = ""
  /\ UNCHANGED <<remote, local, nextId, now, tasks, scanRemote, scanLocal,
                 origin, live, pending, tracked, returned, subs, result,
                 statsRun, analytics, call, midPass, link, dataset>>

\* SpecDocs: documents uploaded by the dashboard of user u1, documents
\* saved remotely by either user, and migration passes of user u1 under
\* any pattern of remote failures, the cached dataset put back after a pass
NextDocs ==
  \/ Tick
  \/ \E u \in Users, d \in DocIds : HandleUploadSuccess(u, d)
  \/ \E u \in AllUsers, d \in DocIds : docPass.calls = 0 /\ SaveDocument(u, d, TRUE)
  \/ \E u \in Users, okRead \in BOOLEAN, okIds \in SUBSET DocIds :
       MigrateDocuments(u, okRead, okIds)
  \/ \E u \in Users : RestoreDocuments(u)

SpecDocs == Init /\ [][NextDocs]_vars

\* C35: a pass of DocumentStorage.migrateFromLocalStorage leaves every
\* cached document that the remote list of the user already held, or whose
\* write succeeded, in the remote store under the document's own id with
\* the migrating userId, and no pass, the first or one run again over the
\* same dataset, leaves two remote documents with the same id
C35_DocumentsOnce ==
  /\ [](\A j, k \in DocIds :
          /\ docRemote[j] # NoDocument
          /\ docRemote[k] # NoDocument
          /\ docRemote[j].id = docRemote[k].id
          => j = k)
  /\ [][docPass' # docPass /\ docLocal[docPass'.user].present
          /\ docLocal' # docLocal =>
        \A n \in 1..Len(docPass'.documents) :
          LET document == docPass'.documents[n] IN
          document.id \in docPass'.existing \cup docPass'.written =>
            /\ docRemote'[document.id].id = document.id
            /\ docRemote'[document.id].userId = docPass'.user]_vars

\* a second pass over the dataset of the first, put back into the cache,
\* has ended: the remote store holds the documents of the dataset, which
\* the second pass found there
C35_Witness ==
  /\ docPass.calls = 2
  /\ Len(docPass.documents) = 2
  /\ docPass.documents[1].id # docPass.documents[2].id
  /\ docPass.existing = {docPass.documents[n].id : n \in 1..2}
  /\ ~docLocal[docPass.user].present
  /\ \A d \in DocIds : docRemote[d].userId = docPass.user

\* SpecMid: codes saved while the remote store is unreachable, at any
\* time before and during the migration passes of the user, whose remote
\* calls succeed or fail
NextMid ==
  \/ Tick
  \/ \E u \in Users, name \in Names :
       nextId < MaxSaved /\ SaveQRCode(u, name, FALSE, FALSE)
  \/ \E t \in SeqTasks, u \in Users : MigrateStart(t, u)
  \/ \E t \in SeqTasks, ok \in BOOLEAN : MigRead(t, ok)
  \/ \E t \in SeqTasks, ok \in BOOLEAN : MigWrite(t, ok)

SpecMid == Init /\ [][NextMid]_vars

\* C36: an entity that a fallback save wrote to the cache while a migration
\* pass of its user was suspended at a remote call is, once the pass has
\* ended, in the local cache or in the remote store
C36_MidPassSaveKept == AllIdle => \A o \in midPass : Present(o)

\* the ids of the entities the remote store and the caches hold
HeldIds(rem, loc) ==
  {i \in Ids : rem[i] # NoData \/ \E u \in AllUsers : HasId(loc[u].codes, i)}

\* C37: one saveQRCode call, under every pattern of remote failures, adds
\* exactly one id to what the remote store and the caches hold together,
\* and the entity it returns carries that id
C37_SaveCreatesOne ==
  [][nextId' # nextId =>
       \E i \in Ids :
         /\ HeldIds(remote', local') \ HeldIds(remote, local) = {i}
         /\ live' = live \cup {i}]_vars

\* C38: a facade call made with userId u returns no entity whose stored
\* userId is another user's, and leaves every remote document and every
\* cache entry of another user as it was
C38_OwnEntitiesOnly ==
  call.op # "" =>
    /\ call.op = "get" /\ call.value # NoDoc => call.value.userId = call.user
    /\ \A i \in Ids :
         call.remote[i] # NoData /\ call.remote[i].userId # call.user
           => remote[i] = call.remote[i]
    /\ \A u \in AllUsers \ {call.user} : local[u] = call.local[u]

LinkIds == {"qr_1", "qr_2", "qr_3", "qr_4"}

BaseUrls ==
  {<<>>,
   <<"https://", "host">>,
   <<"https://", "host:8080">>,
   <<"https://", "host", "/">>,
   <<"https://", "host", "/", "app">>,
   <<"https://", "host", "/", "app", "?", "ref", "=", "x">>,
   <<"host">>}

\* window.location.origin
LocationOrigin == <<"https://", "origin">>

\* the text of a run of tokens
RECURSIVE Join(_)
Join(tokens) == IF tokens = <<>> THEN "" ELSE Head(tokens) \o Join(Tail(tokens))

\* text.split(sep), on tokens
RECURSIVE SplitOn(_, _)
SplitOn(tokens, sep) ==
  IF tokens = <<>> THEN << <<>> >>
  ELSE LET rest == SplitOn(Tail(tokens), sep) IN
       IF Head(tokens) = sep THEN << <<>> >> \o rest
       ELSE << <<Head(tokens)>> \o Head(rest) >> \o Tail(rest)

\* what follows the first sep, nothing when there is none
AfterFirst(tokens, sep) ==
  LET before == Head(SplitOn(tokens, sep)) IN
  SubSeq(tokens, Len(before) + 2, Len(tokens))

\* searchParams.get(key): the value of the first pair with that key, ""
\* for the null of an absent key
RECURSIVE SearchGet(_, _)
SearchGet(pairs, key) ==
  IF pairs = <<>> THEN ""
  ELSE IF Join(Head(SplitOn(Head(pairs), "="))) = key
    THEN Join(AfterFirst(Head(pairs), "="))
  ELSE SearchGet(Tail(pairs), key)

\* generateScanTrackingUrl: `${currentUrl}/scan?qrCodeId=${qrCodeId}&user=${userId}`
GenerateScanTrackingUrl(qrCodeId, userId, baseUrl) ==
  LET currentUrl == IF baseUrl # <<>> THEN baseUrl ELSE LocationOrigin IN
  currentUrl \o <<"/", "scan", "?", "qrCodeId", "=", qrCodeId,
                  "&", "user", "=", userId>>

\* parseScanTrackingUrl: the last part of the path as qrCodeId, the query
\* parameter user as userId; null, here the pair of empty strings, when
\* new URL(url) throws or one of the two is empty
ParseScanTrackingUrl(url) ==
  IF Len(url) < 2 \/ url[1] # "https://"
    THEN [qrCodeId |-> "", userId |-> ""]
  ELSE LET rest == SubSeq(url, 3, Len(url))
           pathname == Head(SplitOn(rest, "?"))
           pathParts == SplitOn(pathname, "/")
           qrCodeId == Join(pathParts[Len(pathParts)])
           userId == SearchGet(SplitOn(AfterFirst(rest, "?"), "&"), "user")
       IN IF qrCodeId = "" \/ userId = ""
            THEN [qrCodeId |-> "", userId |-> ""]
          ELSE [qrCodeId |-> qrCodeId, userId |-> userId]

\* a caller generates a tracking URL
GenerateLink(qrCodeId, userId, baseUrl) ==
  /\ link' = [step |-> "generated", qrCodeId |-> qrCodeId, userId |-> userId,
              baseUrl |-> baseUrl,
              url |-> GenerateScanTrackingUrl(qrCodeId, userId, baseUrl),
              parsed |-> [qrCodeId |-> "", userId |-> ""]]
  /\ UNCHANGED <<remote, local, nextId, now, tasks, scanRemote, scanLocal,
                 docRemote, thrown, origin, live, pending, tracked, returned,
                 subs, result, statsRun, analytics, call, docLocal, docPass,
                 midPass, dataset>>

\* the generated URL is opened and parsed
ParseLink ==
  /\ link.step = "generated"
  /\ link' = [link EXCEPT !.step = "parsed",
                          !.parsed = ParseScanTrackingUrl(link.url)]
  /\ UNCHANGED <<remote, local, nextId, now, tasks, scanRemote, scanLocal,
                 docRemote, thrown, origin, live, pending, tracked, returned,
                 subs, result, statsRun, analytics, call, docLocal, docPass,
                 midPass, dataset>>

\* SpecLink: tracking URLs generated for any code, user and base URL, and
\* parsed again
NextLink ==
  \/ \E qrCodeId \in LinkIds, userId \in AllUsers, baseUrl \in BaseUrls :
       GenerateLink(qrCodeId, userId, baseUrl)
  \/ ParseLink

SpecLink == Init /\ [][NextLink]_vars

\* C40: parseScanTrackingUrl(generateScanTrackingUrl(qrCodeId, userId,
\* baseUrl)) returns the qrCodeId and the userId the URL was generated
\* from, for every pair of ids and every base URL
C40_LinkRoundTrip ==
  link.step = "parsed" =>
    link.parsed = [qrCodeId |-> link.qrCodeId, userId |-> link.userId]

====
